---- MODULE Spec2Model ----
(***************************************************************************)
(* A model of the wedding-innovation client: the axios API client with its *)
(* token refresh (frontend/lib/api.ts), the subdomain parsers and the      *)
(* public fetches (frontend/lib/config.ts, the middleware, the guest       *)
(* layout), the guest-facing confirmation and the owner's guest edit, and  *)
(* the album management page.  The backend is not part of the sources; its *)
(* endpoints are modelled from the specification.                          *)
(***************************************************************************)
EXTENDS Integers, Sequences, FiniteSets, TLC

\* ------------------------------------------------------------------ bounds
NumReq == 3
MaxTok == 2
MaxLogin == 1

NumTab == 2
NumImg == 3
MaxFetch == 1

Req == 1..NumReq
Tok == 1..MaxTok
\* the browser tabs that show a guest's invitation
Tabs == 1..NumTab
\* the guest ids of the registry
Guests == {"g1", "g2"}
\* the ids of the album images
Images == 1..NumImg
\* the dashboard sessions open at once, and the ids an Intro can get
NumSess == 2
NumIntro == 3
Sess == 1..NumSess
Intros == 1..NumIntro
Accounts == {"u1", "u2"}
\* the guests an Intro gets over time, and the page size of the model
MaxGuest == 4
PageSize == 2
MaxPut == 2
GuestIds == 1..MaxGuest

VARIABLES
    \* ---- API client (frontend/lib/api.ts) and the browser around it
    localStorage,   \* key -> value, 0 = the key is absent
    isRefreshing,   \* api.ts:32
    failedQueue,    \* api.ts:33, the requests whose promise waits in the queue
    req,            \* the requests issued through `api`
    href,           \* the page the browser shows
    navigating,     \* window.location.href was assigned: a document load is pending
    logins,         \* number of logins so far
    \* ---- backend session state (modelled from the specification)
    issued,         \* the tokens issued so far are 1..issued
    expired,        \* the access tokens 1..expired have expired
    \* ---- one page request: middleware, guest layout, guest page
    host,           \* the labels of the host name (Host header, window.location.hostname)
    port,           \* the port of the Host header, 0 = none
    pathname,       \* the path segments of the request
    lookupThrows,   \* the middleware's subdomain lookup throws or times out
    parsed,         \* what each subdomain parser derives from the host
    mw,             \* what the middleware did with the request
    meta,           \* what generateMetadata of the guest layout fetched
    page,           \* the state of PublicWeddingPage
    \* ---- guest registry (backend, modelled from the specification)
    guestConfirm,   \* guest id -> the confirmation flag of the guest
    serverLog,      \* the operation the registry served last
    \* ---- guest-facing invite section, one per browser tab
    tab,
    \* ---- the owner's guest management page
    owner,
    \* ---- album session (backend, modelled from the specification)
    albumImages,    \* image id -> its order in the session, 0 = not in it
    nextImage,      \* the id the next uploaded image gets
    reorderLog,     \* the last reorder write the backend served
    \* ---- the owner's album management page
    sessions,       \* image id -> order, the images of the session as the page holds them
    uploading,      \* uploadImages: active or not, the files still to add
    deleting,       \* deleteImage: the DELETE in flight
    reordering,     \* reorderImages: the PUTs in flight
    fetching,       \* fetchSessions: the GETs in flight
    \* ---- accounts and Intros (backend, modelled from the specification)
    accounts,       \* account -> its role, quota and subdomain
    intros,         \* Intro id -> its owner (Null = no row), the caller whose mutation
                    \* it took last and the caller whose mutation it rejected last
    \* ---- the dashboard and the edit pages, one per browser session
    dash,
    \* ---- the guests of one Intro (backend, modelled from the specification)
    roster,         \* ids: the guests in the order of their creation; max_guests: the
                    \* number the stats endpoint reports; seedProtected: the policy
    nextGuest,      \* the id the next guest gets
    \* ---- the owner's guest management page: the list and the modal
    gpage,          \* the state of GuestsManagementPage
    fetches,        \* the pages whose GET /landing-page/guests is in flight
    modal           \* the state of GuestModal and what it saved

authVars == <<localStorage, isRefreshing, failedQueue, req, href, navigating,
              logins, issued, expired>>

routeVars == <<host, port, pathname, lookupThrows, parsed, mw, meta, page>>

guestVars == <<guestConfirm, serverLog, tab, owner>>

albumVars == <<albumImages, nextImage, reorderLog, sessions, uploading, deleting,
               reordering, fetching>>

accountVars == <<accounts, intros, dash>>

rosterVars == <<roster, nextGuest, gpage, fetches, modal>>

nonAuthVars == <<routeVars, guestVars, albumVars, accountVars, rosterVars>>
nonRouteVars == <<authVars, guestVars, albumVars, accountVars, rosterVars>>
nonGuestVars == <<authVars, routeVars, albumVars, accountVars, rosterVars>>
nonAlbumVars == <<authVars, routeVars, guestVars, accountVars, rosterVars>>
nonAccountVars == <<authVars, routeVars, guestVars, albumVars, rosterVars>>
nonRosterVars == <<authVars, routeVars, guestVars, albumVars, accountVars>>

vars == <<authVars, routeVars, guestVars, albumVars, accountVars, rosterVars>>

\* JavaScript's null
Null == "<null>"

\* the page-request variables before any request is made
NoParse == [done |-> FALSE, cfg |-> Null, mw |-> Null, api |-> Null]
NoMw == [done |-> FALSE, validated |-> FALSE, result |-> "none", header |-> Null]
NoMeta == [done |-> FALSE, intro |-> 0]
NoPage == [pc |-> "loading", basePath |-> Null, header |-> Null, auth |-> 0,
           data |-> 0, error |-> FALSE, href |-> Null,
           posted |-> FALSE, postAuth |-> 0, hasConfirmed |-> FALSE]

IdleRoute ==
    /\ host = << >> /\ port = 0 /\ pathname = << >> /\ lookupThrows = FALSE
    /\ parsed = NoParse /\ mw = NoMw /\ meta = NoMeta /\ page = NoPage

\* the guest registry, the invite sections and the guest management page
\* before anything happened
NewTab(g) == [guestId |-> g, pc |-> "loading", guestResult |-> Null,
              hasConfirmed |-> FALSE, isConfirming |-> FALSE, result |-> Null]
NoForm == [confirm |-> FALSE]
NoServed == [kind |-> "none", guest |-> Null, ok |-> FALSE, alreadyConfirmed |-> FALSE,
             wrote |-> FALSE, confirm |-> FALSE, before |-> 0, after |-> 0,
             again |-> FALSE, base |-> 0, firstAlready |-> FALSE]
NewOwner == [loading |-> TRUE, guests |-> [g \in Guests |-> FALSE], editingGuest |-> Null, formData |-> NoForm,
             put |-> "none", guestData |-> NoForm, saved |-> NoForm]

IdleGuest ==
    /\ guestConfirm = [g \in Guests |-> FALSE]
    /\ serverLog = NoServed
    /\ tab = [t \in Tabs |-> NewTab("g1")]
    /\ owner = NewOwner

\* the album session and the album management page before anything happened
NoImages == [i \in Images |-> 0]
NoReorder == [outcome |-> "none", missing |-> {}, unknown |-> {}]
NoUpload == [active |-> FALSE, left |-> 0]
NoDelete == [pc |-> "none", id |-> 0]
Puts == 1..MaxPut
NoPut == [pc |-> "none", image_orders |-> << >>]

IdleAlbum ==
    /\ albumImages = [i \in Images |-> IF i <= 2 THEN i ELSE 0]
    /\ nextImage = 3
    /\ reorderLog = NoReorder
    /\ sessions = NoImages
    /\ uploading = NoUpload
    /\ deleting = NoDelete
    /\ reordering = [n \in Puts |-> NoPut]
    /\ fetching = << >>

\* the accounts, the Intros and the dashboards before anything happened
NoIntro == [owner |-> Null, by |-> Null, denied |-> Null]
NoSubdomainPut == [pc |-> "none", subdomain |-> "", passed |-> FALSE]
NewDash(a, quota) ==
    [account |-> a, user |-> [max_invite |-> quota], loading |-> TRUE, intros |-> 0,
     showCreateModal |-> FALSE, error |-> FALSE, subdomain |-> "",
     subdomainError |-> FALSE, put |-> NoSubdomainPut]

IdleAccount ==
    /\ accounts = [a \in Accounts |-> [role |-> "user", max_invite |-> 1, subdomain |-> Null]]
    /\ intros = [i \in Intros |-> NoIntro]
    /\ dash = [s \in Sess |-> NewDash("u1", 1)]

\* the guest list, the management page and the modal before anything happened
NoStats == [loaded |-> FALSE, total_guests |-> 0, max_guests |-> 0]
NewGuestsPage == [guests |-> << >>, currentPage |-> 1, totalPages |-> 1, stats |-> NoStats,
                  statsPending |-> FALSE, loading |-> TRUE, showCreateModal |-> FALSE,
                  errorMessage |-> FALSE]
NoGuest == [name |-> << >>, user_relationship |-> << >>, confirm |-> FALSE]
NoFormData == [name |-> << >>, relationship |-> << >>, confirm |-> FALSE]
NoModal == [open |-> FALSE, guest |-> NoGuest, formData |-> NoFormData, saved |-> FALSE,
            data |-> NoGuest]

IdleRoster ==
    /\ roster = [ids |-> << >>, max_guests |-> 0, seedProtected |-> FALSE]
    /\ nextGuest = 1
    /\ gpage = NewGuestsPage
    /\ fetches = {}
    /\ modal = NoModal

\* ------------------------------------------------------- API client, state
\* the access tokens the backend accepts
validAccess == (expired + 1)..issued

Keys == {"access_token", "refresh_token", "user", "wedding_subdomain"}

\* localStorage.clear()
lsClear == [k \in Keys |-> IF k = "wedding_subdomain" THEN Null ELSE 0]

NoErr == [kind |-> "none", by |-> 0]
\* the AxiosError of a 401 response, and the error a failed refresh call throws
Err401 == [kind |-> "401", by |-> 0]
RefreshError(r) == [kind |-> "refresh", by |-> r]

NewRequest == [pc |-> "idle", retry |-> FALSE, hdr |-> 0,
               waited |-> FALSE, resent |-> 0, err |-> NoErr]

\* api.interceptors.request.use: the Authorization header of a request that is
\* sent (or sent again) while the storage holds access token `stored`
RequestInterceptorWrong(hdr, stored) == hdr
RequestInterceptor(hdr, stored) == IF stored # 0 THEN stored ELSE hdr

InitAuth ==
    /\ localStorage = [k \in Keys |-> IF k = "wedding_subdomain" THEN "alice" ELSE 1]
    /\ isRefreshing = FALSE
    /\ failedQueue = << >>
    /\ req = [r \in Req |-> NewRequest]
    /\ href = "/dashboard"
    /\ navigating = FALSE
    /\ logins = 0
    /\ issued = 1
    /\ expired = 0
    /\ IdleRoute /\ IdleGuest /\ IdleAlbum /\ IdleAccount /\ IdleRoster

\* ----------------------------------------------------- API client, actions
\* A page calls api.get/post/put/delete: the request interceptor runs and the
\* request leaves.  Requests are numbered in the order they are issued.
Send(r) ==
    /\ href # "/login" /\ ~navigating
    /\ req[r].pc = "idle"
    /\ \A q \in Req : q < r => req[q].pc # "idle"
    /\ req' = [req EXCEPT ![r].pc = "sent",
                          ![r].hdr = RequestInterceptor(0, localStorage["access_token"])]
    /\ UNCHANGED <<localStorage, isRefreshing, failedQueue, href, navigating,
                   logins, issued, expired>>
    /\ UNCHANGED nonAuthVars

\* The backend answers a request that carries a valid access token, and the
\* success branch of the response interceptor hands the response on.
Respond200(r) ==
    /\ req[r].pc = "sent"
    /\ req[r].hdr \in validAccess
    /\ req' = [req EXCEPT ![r].pc = "ok"]
    /\ UNCHANGED <<localStorage, isRefreshing, failedQueue, href, navigating,
                   logins, issued, expired>>
    /\ UNCHANGED nonAuthVars

\* The backend answers 401 to a request without a valid access token; the
\* response is on its way to the client.
Respond401(r) ==
    /\ req[r].pc = "sent"
    /\ req[r].hdr \notin validAccess
    /\ req' = [req EXCEPT ![r].pc = "resp401"]
    /\ UNCHANGED <<localStorage, isRefreshing, failedQueue, href, navigating,
                   logins, issued, expired>>
    /\ UNCHANGED nonAuthVars

\* The oldest valid access token expires (every token has the same lifetime).
ExpireAccess ==
    /\ expired < issued
    /\ expired' = expired + 1
    /\ UNCHANGED <<localStorage, isRefreshing, failedQueue, req, href, navigating,
                   logins, issued>>
    /\ UNCHANGED nonAuthVars

\* The branch the 401 handler takes: api.ts:88-115
BranchNoSingleFlight(retry, refreshToken, refreshing) ==
    IF retry THEN "reject"
    ELSE IF refreshToken = 0 THEN "relogin"
    ELSE "refresh"
Branch401(retry, refreshToken, refreshing) ==
    IF retry THEN "reject"
    ELSE IF refreshToken = 0 THEN "relogin"
    ELSE IF refreshing THEN "queue"
    ELSE "refresh"

\* response interceptor, error branch, up to the await of the refresh call
Handle401(r) ==
    /\ req[r].pc = "resp401"
    /\ LET b == Branch401(req[r].retry, localStorage["refresh_token"], isRefreshing) IN
       /\ b = "reject" =>
            /\ req' = [req EXCEPT ![r].pc = "rejected", ![r].err = Err401]
            /\ UNCHANGED <<localStorage, isRefreshing, failedQueue, href, navigating>>
       /\ b = "relogin" =>
            /\ localStorage' = lsClear
            /\ href' = "/login" /\ navigating' = TRUE
            /\ req' = [req EXCEPT ![r].pc = "rejected", ![r].err = Err401]
            /\ UNCHANGED <<isRefreshing, failedQueue>>
       /\ b = "queue" =>
            /\ failedQueue' = Append(failedQueue, r)
            /\ req' = [req EXCEPT ![r].pc = "queued"]
            /\ UNCHANGED <<localStorage, isRefreshing, href, navigating>>
       /\ b = "refresh" =>
            /\ isRefreshing' = TRUE
            /\ req' = [req EXCEPT ![r].pc = "refreshing", ![r].retry = TRUE]
            /\ UNCHANGED <<localStorage, failedQueue, href, navigating>>
    /\ UNCHANGED <<logins, issued, expired>>
    /\ UNCHANGED nonAuthVars

InQueue(q) == \E i \in 1..Len(failedQueue) : failedQueue[i] = q

\* processQueue(null, token): every waiting promise resolves; its then-callback
\* sets the header and calls api(originalRequest), which runs the request
\* interceptor again.  The callbacks are microtasks: they run before any other
\* event of the page.
ResolveQueuedStale(q, token, stored) ==
    [req[q] EXCEPT !.pc = "sent", !.waited = TRUE, !.resent = @ + 1]
ResolveQueued(q, token, stored) ==
    [req[q] EXCEPT !.pc = "sent", !.waited = TRUE, !.resent = @ + 1,
                   !.hdr = RequestInterceptor(token, stored)]

\* processQueue(error): every waiting promise rejects with the same error
RejectQueuedOwnError(q, e) == [req[q] EXCEPT !.pc = "rejected", !.err = Err401]
RejectQueuedNever(q, e) == req[q]
RejectQueued(q, e) == [req[q] EXCEPT !.pc = "rejected", !.err = e]

\* the stored tokens after a successful refresh: api.ts:129-135
SaveTokensAlways(ls, access_token, newRefreshToken) ==
    [ls EXCEPT !["access_token"] = access_token,
               !["refresh_token"] = newRefreshToken]
SaveTokens(ls, access_token, newRefreshToken) ==
    [ls EXCEPT !["access_token"] = access_token,
               !["refresh_token"] = IF newRefreshToken # 0 THEN newRefreshToken ELSE @]

\* The refresh call of r returns 200: api.ts:129-146 and the finally block.
\* The backend issues a new access token and may rotate the refresh token.
RefreshOk(r, rotate) ==
    /\ req[r].pc = "refreshing"
    /\ issued < MaxTok
    /\ LET tok == issued + 1
           newRefresh == IF rotate THEN tok ELSE 0
           ls == SaveTokens(localStorage, tok, newRefresh)
       IN /\ issued' = tok
          /\ localStorage' = ls
          /\ req' = [q \in Req |->
                       IF q = r
                       THEN [req[r] EXCEPT !.pc = "sent", !.resent = @ + 1,
                                           !.hdr = RequestInterceptor(tok, ls["access_token"])]
                       ELSE IF InQueue(q)
                       THEN ResolveQueued(q, tok, ls["access_token"])
                       ELSE req[q]]
    /\ failedQueue' = << >>
    /\ isRefreshing' = FALSE
    /\ UNCHANGED <<href, navigating, logins, expired>>
    /\ UNCHANGED nonAuthVars

\* The refresh call of r throws (the token was refused, or the call failed):
\* api.ts:147-155
RefreshFail(r) ==
    /\ req[r].pc = "refreshing"
    /\ req' = [q \in Req |->
                 IF q = r THEN [req[r] EXCEPT !.pc = "rejected", !.err = RefreshError(r)]
                 ELSE IF InQueue(q) THEN RejectQueued(q, RefreshError(r))
                 ELSE req[q]]
    /\ failedQueue' = << >>
    /\ localStorage' = lsClear
    /\ href' = "/login" /\ navigating' = TRUE
    /\ isRefreshing' = FALSE
    /\ UNCHANGED <<logins, issued, expired>>
    /\ UNCHANGED nonAuthVars

\* DashboardPage.handleLogout / AdminPage.handleLogout: a client-side
\* navigation, the page's script keeps running
handleLogout ==
    /\ href # "/login" /\ ~navigating
    /\ localStorage' = [localStorage EXCEPT !["access_token"] = 0,
                                            !["refresh_token"] = 0,
                                            !["user"] = 0]
    /\ href' = "/login"
    /\ UNCHANGED <<isRefreshing, failedQueue, req, navigating, logins,
                   issued, expired>>
    /\ UNCHANGED nonAuthVars

\* LoginPage.handleSubmit with accepted credentials
handleSubmitLogin(sub) ==
    /\ href = "/login" /\ ~navigating
    /\ logins < MaxLogin /\ issued < MaxTok
    /\ logins' = logins + 1
    /\ issued' = issued + 1
    /\ localStorage' = [localStorage EXCEPT !["access_token"] = issued + 1,
                                            !["refresh_token"] = issued + 1,
                                            !["user"] = 1,
                                            !["wedding_subdomain"] =
                                                IF sub # Null THEN sub ELSE @]
    /\ href' = "/dashboard"
    /\ UNCHANGED <<isRefreshing, failedQueue, req, navigating, expired>>
    /\ UNCHANGED nonAuthVars

NextAuth ==
    \/ \E r \in Req : Send(r)
    \/ \E r \in Req : Respond200(r)
    \/ \E r \in Req : Respond401(r)
    \/ ExpireAccess
    \/ \E r \in Req : Handle401(r)
    \/ \E r \in Req, rotate \in BOOLEAN : RefreshOk(r, rotate)
    \/ \E r \in Req : RefreshFail(r)
    \/ handleLogout
    \/ \E sub \in {Null, "alice"} : handleSubmitLogin(sub)

SpecAuth == InitAuth /\ [][NextAuth]_vars

\* every HTTP call eventually returns, and the handler of a response that has
\* arrived eventually runs
HttpReturns ==
    \A r \in Req :
       /\ WF_vars(Respond200(r))
       /\ WF_vars(Respond401(r))
       /\ WF_vars(Handle401(r))
       /\ WF_vars((\E rotate \in BOOLEAN : RefreshOk(r, rotate)) \/ RefreshFail(r))

SpecAuthLive == SpecAuth /\ HttpReturns

\* ================================================================ routing
\* ------------------------------------------------------- subdomain parsers
MaxLabels == 5

\* String.prototype.toLowerCase on the labels of the model
toLowerCase(l) ==
    CASE l = "WWW" -> "www"
      [] l = "Admin" -> "admin"
      [] l = "Alice" -> "alice"
      [] l = "Ba" -> "ba"
      [] l = "Anh" -> "anh"
      [] l = "Em" -> "em"
      [] l = "Anh/Chi" -> "anh/chi"
      [] l = "Quy" -> "quy"
      [] l = "Minh" -> "minh"
      [] OTHER -> l

\* config.ts:21 and the middleware's copy
SYSTEM_SUBDOMAINS == {"www", "api", "admin", "mail", "ftp", "cpanel"}

\* hostname === 'localhost' || hostname === '127.0.0.1'
IsLocalhost(hostname) == hostname = <<"localhost">> \/ hostname = <<"127", "0", "0", "1">>

\* config.ts getSubdomainFromUrl(); hostname.split('.') is the label sequence
getSubdomainFromUrl3(hasWindow, hostname, storedSubdomain) ==
    IF ~hasWindow THEN Null
    ELSE IF IsLocalhost(hostname) THEN storedSubdomain
    ELSE IF Len(hostname) >= 3 /\ toLowerCase(hostname[1]) \notin SYSTEM_SUBDOMAINS
         THEN toLowerCase(hostname[1])
    ELSE Null
getSubdomainFromUrl(hasWindow, hostname, storedSubdomain) ==
    IF ~hasWindow THEN Null
    ELSE IF IsLocalhost(hostname) THEN storedSubdomain
    ELSE IF Len(hostname) >= 4 /\ toLowerCase(hostname[1]) \notin SYSTEM_SUBDOMAINS
         THEN toLowerCase(hostname[1])
    ELSE Null

\* middleware getSubdomain(hostname): hostname.split(':')[0] drops the port
mwGetSubdomain(hostname, hostPort) ==
    IF IsLocalhost(hostname) THEN Null
    ELSE IF Len(hostname) >= 4 /\ toLowerCase(hostname[1]) \notin SYSTEM_SUBDOMAINS
         THEN toLowerCase(hostname[1])
    ELSE Null

\* api.ts getSubdomain()
apiGetSubdomain(hasWindow, hostname, storedSubdomain) ==
    IF ~hasWindow THEN Null
    ELSE IF Len(hostname) >= 2 /\ toLowerCase(hostname[1]) \notin {"www", "api", "admin"}
         THEN toLowerCase(hostname[1])
    ELSE storedSubdomain

\* ------------------------------------- backend directory (specification)
\* Two tenants: Intro 1 of the account with subdomain alice, Intro 2 of the
\* account with subdomain bob; guest g1 belongs to Intro 1, g2 to Intro 2.
\* 0 stands for NotFound.
resolveBySubdomain(subdomain) ==
    IF subdomain = Null \/ toLowerCase(subdomain) \in SYSTEM_SUBDOMAINS THEN 0
    ELSE IF toLowerCase(subdomain) = "alice" THEN 1
    ELSE IF toLowerCase(subdomain) = "bob" THEN 2
    ELSE 0

guestIntro(guestId) ==
    IF guestId = "g1" THEN 1 ELSE IF guestId = "g2" THEN 2 ELSE 0

\* GET /landing-page/public/{guestId}: the guest resolved directly
landingPublic(guestId) == guestIntro(guestId)

\* GET /landing-page/by-subdomain/{guestId} with X-Subdomain: the guest must
\* belong to the Intro the subdomain resolves to
landingBySubdomain(subdomain, guestId) ==
    IF resolveBySubdomain(subdomain) # 0
         /\ guestIntro(guestId) = resolveBySubdomain(subdomain)
    THEN resolveBySubdomain(subdomain) ELSE 0

\* ------------------------------------------------------------ middleware
PUBLIC_ROUTES == {"login", "admin", "dashboard", "edit", "preview",
                  "_next", "favicon.ico", "img", "font", "music"}

\* pathname.startsWith('/_next') || ... || pathname.includes('.')
IsStaticPath(path) ==
    /\ Len(path) > 0
    /\ \/ path[1] \in {"_next", "favicon.ico", "img", "font", "music"}
       \/ \E i \in 1..Len(path) : path[i] \in {"favicon.ico", "a.png"}

\* validateSubdomain(subdomain): response.ok, or true when the fetch throws
validateSubdomainFailClosed(subdomain, throws) ==
    IF throws THEN FALSE ELSE resolveBySubdomain(subdomain) # 0
validateSubdomain(subdomain, throws) ==
    IF throws THEN TRUE ELSE resolveBySubdomain(subdomain) # 0

\* middleware(request)
middlewareResult(hostname, hostPort, path, throws) ==
    LET subdomain == mwGetSubdomain(hostname, hostPort) IN
    IF subdomain = Null
    THEN [done |-> TRUE, validated |-> FALSE, result |-> "next", header |-> Null]
    ELSE IF IsStaticPath(path)
    THEN [done |-> TRUE, validated |-> FALSE, result |-> "next", header |-> Null]
    ELSE IF ~validateSubdomain(subdomain, throws)
    THEN [done |-> TRUE, validated |-> TRUE, result |-> "rewrite", header |-> Null]
    ELSE [done |-> TRUE, validated |-> TRUE, result |-> "next", header |-> subdomain]

\* ------------------------------------------------- the inputs of a request
FirstLabels == {"www", "WWW", "api", "admin", "Admin", "mail", "ftp", "cpanel",
                "alice", "Alice", "bob", "ghost", "localhost", "hoangdieuit"}

\* the n labels that follow the first one
HostTail(n) == [i \in 1..n |->
              IF i = n THEN "vn" ELSE IF i = n - 1 THEN "io"
              ELSE IF i = n - 2 THEN "hoangdieuit" ELSE "x"]

Hosts == { <<f>> \o HostTail(n) : f \in FirstLabels, n \in 0..(MaxLabels - 1) }
             \cup { <<"127", "0", "0", "1">> }

Paths == { << >>, <<"dashboard">>, <<"login">>, <<"edit", "1", "guests">>,
           <<"preview", "1">>, <<"g1">>, <<"g2">>, <<"gx">>,
           <<"_next", "static">>, <<"img", "a.png">> }

\* the dynamic route app/[guestId]
IsGuestPath(path) == Len(path) = 1 /\ path[1] \notin PUBLIC_ROUTES

InitRoute ==
    /\ host \in Hosts
    /\ port \in {0, 3000}
    /\ pathname \in Paths
    /\ lookupThrows \in BOOLEAN
    /\ parsed = NoParse /\ mw = NoMw /\ meta = NoMeta /\ page = NoPage
    /\ \E t \in {0, 1}, w \in {Null, "alice", "bob"} :
         localStorage = [k \in Keys |-> IF k = "wedding_subdomain" THEN w ELSE t]
    /\ isRefreshing = FALSE /\ failedQueue = << >>
    /\ req = [r \in Req |-> NewRequest]
    /\ href = "/" /\ navigating = FALSE /\ logins = 0
    /\ issued = 1 /\ expired = 0
    /\ IdleGuest /\ IdleAlbum /\ IdleAccount /\ IdleRoster

\* ---------------------------------------------------------------- actions
\* each parser applied to the host of the request
Parse ==
    /\ ~parsed.done
    /\ parsed' = [done |-> TRUE,
                  cfg |-> getSubdomainFromUrl(TRUE, host, localStorage["wedding_subdomain"]),
                  mw |-> mwGetSubdomain(host, port),
                  api |-> apiGetSubdomain(TRUE, host, localStorage["wedding_subdomain"])]
    /\ UNCHANGED <<host, port, pathname, lookupThrows, mw, meta, page>>
    /\ UNCHANGED nonRouteVars

middleware ==
    /\ parsed.done /\ ~mw.done
    /\ mw' = middlewareResult(host, port, pathname, lookupThrows)
    /\ UNCHANGED <<host, port, pathname, lookupThrows, parsed, meta, page>>
    /\ UNCHANGED nonRouteVars

\* layout.tsx getWeddingData(guestId), called by generateMetadata on the server:
\* the main fetch goes to /landing-page/public/{guestId}, with no subdomain
getWeddingData(guestId) == landingPublic(guestId)

generateMetadata ==
    /\ mw.done /\ mw.result = "next" /\ IsGuestPath(pathname)
    /\ ~meta.done
    /\ meta' = [done |-> TRUE, intro |-> getWeddingData(pathname[1])]
    /\ UNCHANGED <<host, port, pathname, lookupThrows, parsed, mw, page>>
    /\ UNCHANGED nonRouteVars

\* config.ts publicFetch(guestId): the request it sends
publicFetchThroughApi(hostname, storedSubdomain) ==
    LET subdomain == getSubdomainFromUrl(TRUE, hostname, storedSubdomain) IN
    [basePath |-> IF subdomain # Null THEN "by-subdomain" ELSE "public",
     header |-> subdomain,
     auth |-> localStorage["access_token"]]
publicFetchRequest(hostname, storedSubdomain) ==
    LET subdomain == getSubdomainFromUrl(TRUE, hostname, storedSubdomain) IN
    [basePath |-> IF subdomain # Null THEN "by-subdomain" ELSE "public",
     header |-> subdomain,
     auth |-> 0]

\* what the backend answers to it: the Intro whose data it returns, 0 = not ok
publicFetchAnswer(request, guestId) ==
    IF request.basePath = "by-subdomain"
    THEN landingBySubdomain(request.header, guestId)
    ELSE landingPublic(guestId)

\* PublicWeddingPage useEffect: no subdomain -> router.replace('/not-found'),
\* otherwise fetchWeddingData() starts publicFetch(guestId)
PageEffect ==
    /\ meta.done /\ page.pc = "loading"
    /\ IF getSubdomainFromUrl(TRUE, host, localStorage["wedding_subdomain"]) = Null
       THEN page' = [page EXCEPT !.pc = "replaced", !.href = "/not-found"]
       ELSE LET q == publicFetchRequest(host, localStorage["wedding_subdomain"]) IN
            page' = [page EXCEPT !.pc = "fetching", !.basePath = q.basePath,
                                 !.header = q.header, !.auth = q.auth]
    /\ UNCHANGED <<host, port, pathname, lookupThrows, parsed, mw, meta>>
    /\ UNCHANGED nonRouteVars

\* fetchWeddingData after the await: null -> the error view, else the page
PageFetched ==
    /\ IsGuestPath(pathname) /\ page.pc = "fetching"
    /\ LET result == publicFetchAnswer(page, pathname[1]) IN
       page' = IF result = 0
               THEN [page EXCEPT !.pc = "error", !.error = TRUE]
               ELSE [page EXCEPT !.pc = "shown", !.data = result]
    /\ UNCHANGED <<host, port, pathname, lookupThrows, parsed, mw, meta>>
    /\ UNCHANGED nonRouteVars

\* InviteSection.handleConfirmClick on the page shown: the confirm POST goes
\* through publicFetch; the registry takes it for the guest id alone
InviteConfirmClick ==
    /\ IsGuestPath(pathname) /\ page.pc = "shown"
    /\ ~page.hasConfirmed
    /\ LET q == publicFetchRequest(host, localStorage["wedding_subdomain"])
           result == publicFetchAnswer(q, pathname[1]) IN
       page' = [page EXCEPT !.posted = TRUE, !.postAuth = q.auth,
                            !.hasConfirmed = (result # 0)]
    /\ UNCHANGED <<host, port, pathname, lookupThrows, parsed, mw, meta>>
    /\ UNCHANGED nonRouteVars

\* Home useEffect on the main domain: router.push('/dashboard') with a stored
\* access token, router.push('/login') without
HomeRedirect(token) == IF token # 0 THEN "/dashboard" ELSE "/login"

\* Home useEffect: with a subdomain fetchWeddingBySubdomain() starts the GET
\* of /landing-page/by-subdomain, otherwise the router is pushed
HomeEffect ==
    /\ mw.done /\ mw.result = "next" /\ pathname = << >>
    /\ page.pc = "loading"
    /\ LET sub == getSubdomainFromUrl(TRUE, host, localStorage["wedding_subdomain"]) IN
       IF sub # Null
       THEN page' = [page EXCEPT !.pc = "fetching", !.basePath = "by-subdomain",
                                 !.header = sub]
       ELSE page' = [page EXCEPT !.pc = "pushed",
                                 !.href = HomeRedirect(localStorage["access_token"])]
    /\ UNCHANGED <<host, port, pathname, lookupThrows, parsed, mw, meta>>
    /\ UNCHANGED nonRouteVars

\* fetchWeddingBySubdomain after the await: not ok -> the not-found view of
\* Home, else the wedding page without a guest
HomeFetched ==
    /\ pathname = << >> /\ page.pc = "fetching"
    /\ LET result == resolveBySubdomain(page.header) IN
       page' = IF result = 0
               THEN [page EXCEPT !.pc = "error", !.error = TRUE]
               ELSE [page EXCEPT !.pc = "shown", !.data = result]
    /\ UNCHANGED <<host, port, pathname, lookupThrows, parsed, mw, meta>>
    /\ UNCHANGED nonRouteVars

NextRoute ==
    \/ Parse
    \/ middleware
    \/ generateMetadata
    \/ PageEffect
    \/ PageFetched
    \/ InviteConfirmClick
    \/ HomeEffect
    \/ HomeFetched

SpecRoute == InitRoute /\ [][NextRoute]_vars

\* ================================================================= guests
\* ------------------------------------ guest registry (specification 4.3, 4.4)
\* stats(introId).confirmed
statsConfirmed(flags, intro) ==
    Cardinality({g \in Guests : guestIntro(g) = intro /\ flags[g]})

\* confirmAttendance(guestId) on a guest whose flag is `confirmed`
confirmAttendanceRewrites(confirmed) ==
    [ok |-> TRUE, alreadyConfirmed |-> FALSE, wrote |-> TRUE, confirm |-> TRUE]
confirmAttendance(confirmed) ==
    [ok |-> TRUE, alreadyConfirmed |-> confirmed, wrote |-> ~confirmed, confirm |-> TRUE]

\* The record of the operation the registry served last: its kind, guest and
\* answer, the confirmed count of the guest's Intro before and after it, and,
\* when it is a confirm that directly follows a confirm of the same guest
\* (again), the confirmed count before that first confirm (base) and whether
\* that first confirm found the guest confirmed (firstAlready).
Served(kind, g, answer, flags, last) ==
    LET again == kind = "confirm" /\ last.kind = "confirm" /\ last.guest = g
        before == statsConfirmed(flags, guestIntro(g)) IN
    [kind |-> kind, guest |-> g, ok |-> answer.ok,
     alreadyConfirmed |-> answer.alreadyConfirmed, wrote |-> answer.wrote,
     confirm |-> answer.confirm,
     before |-> before,
     after |-> statsConfirmed([flags EXCEPT ![g] = answer.confirm], guestIntro(g)),
     again |-> again,
     base |-> IF again THEN last.before ELSE before,
     firstAlready |-> IF again THEN last.alreadyConfirmed ELSE answer.alreadyConfirmed]

\* -------------------------------------------- InviteSection (guest-facing)
\* fetchData: the backend answers publicFetch(guestId) with the guest, or the
\* fetch fails (null)
fetchDataServed(t, fails) ==
    /\ tab[t].pc = "loading"
    /\ tab' = [tab EXCEPT ![t].pc = "fetched",
                          ![t].guestResult =
                              IF fails THEN Null
                              ELSE IF guestConfirm[tab[t].guestId] THEN "confirmed"
                              ELSE "pending"]
    /\ UNCHANGED <<guestConfirm, serverLog, owner>>
    /\ UNCHANGED nonGuestVars

\* fetchData after the await: if (guestResult?.guest?.confirm) setHasConfirmed(true);
\* finally setLoading(false)
fetchDataReturned(t) ==
    /\ tab[t].pc = "fetched"
    /\ tab' = [tab EXCEPT ![t].pc = "ready",
                          ![t].hasConfirmed =
                              IF tab[t].guestResult = "confirmed"
                              THEN TRUE ELSE tab[t].hasConfirmed,
                          ![t].guestResult = Null]
    /\ UNCHANGED <<guestConfirm, serverLog, owner>>
    /\ UNCHANGED nonGuestVars

\* handleConfirmClick up to the await: returns at once when a confirm is in
\* flight or the guest has confirmed, else sends POST .../confirm
handleConfirmClick(t) ==
    /\ tab[t].pc = "ready"
    /\ ~(tab[t].isConfirming \/ tab[t].hasConfirmed)
    /\ tab' = [tab EXCEPT ![t].pc = "confirming", ![t].isConfirming = TRUE]
    /\ UNCHANGED <<guestConfirm, serverLog, owner>>
    /\ UNCHANGED nonGuestVars

\* the backend serves the confirm POST; the response reaches the page (OK) or
\* is lost on the way back (the fetch throws)
confirmServed(t, lost) ==
    /\ tab[t].pc = "confirming"
    /\ LET g == tab[t].guestId
           answer == confirmAttendance(guestConfirm[g]) IN
       /\ guestConfirm' = [guestConfirm EXCEPT ![g] = answer.confirm]
       /\ serverLog' = Served("confirm", g, answer, guestConfirm, serverLog)
       /\ tab' = [tab EXCEPT ![t].pc = "answered",
                             ![t].result =
                                 IF lost THEN Null
                                 ELSE IF answer.alreadyConfirmed THEN "alreadyConfirmed"
                                 ELSE "confirmed"]
    /\ UNCHANGED owner
    /\ UNCHANGED nonGuestVars

\* the confirm POST never reaches the backend or is answered non-OK:
\* publicFetch returns null or throws
confirmFailed(t) ==
    /\ tab[t].pc = "confirming"
    /\ tab' = [tab EXCEPT ![t].pc = "answered", ![t].result = Null]
    /\ UNCHANGED <<guestConfirm, serverLog, owner>>
    /\ UNCHANGED nonGuestVars

\* handleConfirmClick after the await: if (result) setHasConfirmed(true);
\* finally setIsConfirming(false)
confirmReturnedAlways(t) ==
    /\ tab[t].pc = "answered"
    /\ tab' = [tab EXCEPT ![t].pc = "ready",
                          ![t].hasConfirmed = TRUE,
                          ![t].isConfirming = FALSE,
                          ![t].result = Null]
    /\ UNCHANGED <<guestConfirm, serverLog, owner>>
    /\ UNCHANGED nonGuestVars
confirmReturned(t) ==
    /\ tab[t].pc = "answered"
    /\ tab' = [tab EXCEPT ![t].pc = "ready",
                          ![t].hasConfirmed = IF tab[t].result # Null THEN TRUE
                                              ELSE tab[t].hasConfirmed,
                          ![t].isConfirming = FALSE,
                          ![t].result = Null]
    /\ UNCHANGED <<guestConfirm, serverLog, owner>>
    /\ UNCHANGED nonGuestVars

\* the guest reloads the invitation: the component mounts with its initial
\* state
PageLoad(t) ==
    /\ tab[t].pc = "ready"
    /\ tab' = [tab EXCEPT ![t] = NewTab(tab[t].guestId)]
    /\ UNCHANGED <<guestConfirm, serverLog, owner>>
    /\ UNCHANGED nonGuestVars

\* ------------------------------------- GuestsManagementPage (owner-facing)
\* fetchGuests: setGuests(data.items)
fetchGuests ==
    /\ owner.put = "none"
    /\ owner' = [owner EXCEPT !.guests = guestConfirm, !.loading = FALSE]
    /\ UNCHANGED <<guestConfirm, serverLog, tab>>
    /\ UNCHANGED nonGuestVars

\* GuestModal: useState({..., confirm: guest?.confirm || false}) for the guest
\* of the list the owner chose to edit
setEditingGuest(g) ==
    /\ ~owner.loading /\ owner.editingGuest = Null
    /\ owner' = [owner EXCEPT !.editingGuest = g,
                              !.formData = [confirm |-> owner.guests[g]]]
    /\ UNCHANGED <<guestConfirm, serverLog, tab>>
    /\ UNCHANGED nonGuestVars

\* the modal's cancel button: onClose = () => setEditingGuest(null)
onClose ==
    /\ owner.editingGuest # Null /\ owner.put = "none"
    /\ owner' = [owner EXCEPT !.editingGuest = Null, !.formData = NoForm]
    /\ UNCHANGED <<guestConfirm, serverLog, tab>>
    /\ UNCHANGED nonGuestVars

\* the checkbox of the modal: setFormData({...formData, confirm: e.target.checked})
setFormData(checked) ==
    /\ owner.editingGuest # Null
    /\ owner.formData.confirm # checked
    /\ owner' = [owner EXCEPT !.formData = [confirm |-> checked]]
    /\ UNCHANGED <<guestConfirm, serverLog, tab>>
    /\ UNCHANGED nonGuestVars

\* GuestModal.handleSave: the guest data handed to onSave
handleSaveUnconfirms(formData) == [confirm |-> FALSE]
handleSave(formData) == [confirm |-> formData.confirm]

\* handleSave and updateGuest up to the await: PUT /landing-page/guests/{id}
updateGuest ==
    /\ owner.editingGuest # Null /\ owner.put = "none"
    /\ owner' = [owner EXCEPT !.put = "sent",
                              !.guestData = handleSave(owner.formData),
                              !.saved = owner.formData]
    /\ UNCHANGED <<guestConfirm, serverLog, tab>>
    /\ UNCHANGED nonGuestVars

\* the registry serves the owner's update: the flag takes the value sent
updateServed ==
    /\ owner.put = "sent"
    /\ LET g == owner.editingGuest
           answer == [ok |-> TRUE, alreadyConfirmed |-> guestConfirm[g],
                      wrote |-> TRUE, confirm |-> owner.guestData.confirm] IN
       /\ guestConfirm' = [guestConfirm EXCEPT ![g] = answer.confirm]
       /\ serverLog' = Served("update", g, answer, guestConfirm, serverLog)
    /\ owner' = [owner EXCEPT !.put = "ok"]
    /\ UNCHANGED tab
    /\ UNCHANGED nonGuestVars

\* the update is refused or never arrives: api.put throws
updateFailed ==
    /\ owner.put = "sent"
    /\ owner' = [owner EXCEPT !.put = "error"]
    /\ UNCHANGED <<guestConfirm, serverLog, tab>>
    /\ UNCHANGED nonGuestVars

\* updateGuest after the await: fetchGuests(); fetchStats(); setEditingGuest(null),
\* or console.error in the catch block
updateReturned ==
    /\ owner.put \in {"ok", "error"}
    /\ owner' = IF owner.put = "ok"
                THEN [owner EXCEPT !.put = "none", !.guests = guestConfirm,
                                   !.editingGuest = Null, !.formData = NoForm,
                                   !.guestData = NoForm, !.saved = NoForm]
                ELSE [owner EXCEPT !.put = "none", !.guestData = NoForm,
                                   !.saved = NoForm]
    /\ UNCHANGED <<guestConfirm, serverLog, tab>>
    /\ UNCHANGED nonGuestVars

InitGuest ==
    /\ guestConfirm = [g \in Guests |-> FALSE]
    /\ serverLog = NoServed
    /\ \E g \in Guests : tab = [t \in Tabs |-> NewTab(g)]
    /\ owner = NewOwner
    /\ localStorage = [k \in Keys |-> IF k = "wedding_subdomain" THEN "alice" ELSE 1]
    /\ isRefreshing = FALSE /\ failedQueue = << >>
    /\ req = [r \in Req |-> NewRequest]
    /\ href = "/edit/1/guests" /\ navigating = FALSE /\ logins = 0
    /\ issued = 1 /\ expired = 0
    /\ IdleRoute /\ IdleAlbum /\ IdleAccount /\ IdleRoster

NextGuest ==
    \/ \E t \in Tabs, fails \in BOOLEAN : fetchDataServed(t, fails)
    \/ \E t \in Tabs : fetchDataReturned(t)
    \/ \E t \in Tabs : handleConfirmClick(t)
    \/ \E t \in Tabs, lost \in BOOLEAN : confirmServed(t, lost)
    \/ \E t \in Tabs : confirmFailed(t)
    \/ \E t \in Tabs : confirmReturned(t)
    \/ \E t \in Tabs : PageLoad(t)
    \/ fetchGuests
    \/ \E g \in Guests : setEditingGuest(g)
    \/ onClose
    \/ \E checked \in BOOLEAN : setFormData(checked)
    \/ updateGuest
    \/ updateServed
    \/ updateFailed
    \/ updateReturned

SpecGuest == InitGuest /\ [][NextGuest]_vars

\* ================================================================= albums
\* ------------------------------- album session (specification 3, 5 and 8)
\* the images of a session
present(imgs) == {i \in Images : imgs[i] # 0}

\* the ids of the images sorted by order (ties by id), as the page renders
\* them: session.images.sort((a, b) => a.order - b.order)
RECURSIVE sorted(_, _)
sorted(imgs, ids) ==
    IF ids = {} THEN << >>
    ELSE LET m == CHOOSE i \in ids :
                    \A j \in ids : imgs[i] < imgs[j] \/ (imgs[i] = imgs[j] /\ i <= j)
         IN <<m>> \o sorted(imgs, ids \ {m})

\* the image at position k of the list gets order k
ordered(list) ==
    [i \in Images |-> IF \E k \in 1..Len(list) : list[k] = i
                      THEN CHOOSE k \in 1..Len(list) : list[k] = i ELSE 0]

\* the orders made contiguous again, 1..N, keeping the relative order
renormalize(imgs) == ordered(sorted(imgs, present(imgs)))

\* add an image to the session: the backend assigns the next order
addImage(imgs, id) == [imgs EXCEPT ![id] = Cardinality(present(imgs)) + 1]

\* delete an image: the rest is renormalized
removeImage(imgs, id) == renormalize([imgs EXCEPT ![id] = 0])

\* a reorder that lists exactly the images of the session
covers(imgs, image_orders) ==
    {image_orders[k] : k \in 1..Len(image_orders)} = present(imgs)

\* a reorder applied: the images listed get the order sent, and the orders
\* are renormalized (listed images before unlisted ones of the same order)
applyReorder(imgs, image_orders) ==
    LET sent == ordered(image_orders)
        raw == [i \in Images |-> IF imgs[i] = 0 THEN 0
                                 ELSE IF sent[i] # 0 THEN 2 * sent[i]
                                 ELSE 2 * imgs[i] + 1]
    IN renormalize(raw)

\* ------------------------------------------------- AlbumsManagementPage
\* arrayMove(array, from, to) of @dnd-kit/sortable
arrayMove(array, from, to) ==
    LET without == [k \in 1..(Len(array) - 1) |->
                        IF k < from THEN array[k] ELSE array[k + 1]]
    IN [k \in 1..Len(array) |->
            IF k < to THEN without[k]
            ELSE IF k = to THEN array[from]
            ELSE without[k - 1]]

\* position of an image in a list: findIndex
findIndex(list, id) == CHOOSE k \in 1..Len(list) : list[k] = id

\* AlbumCard.handleDragEnd: the images of the page's session, moved, with
\* order idx + 1
handleDragEnd(images, active, over) ==
    LET list == sorted(images, present(images))
    IN arrayMove(list, findIndex(list, active), findIndex(list, over))

\* fetchSessions(): GET /landing-page/album-sessions
fetchSessions(gets) == Append(gets, [pc |-> "sent", data |-> NoImages])

\* the backend answers a GET with the images of the session
fetchServed(n) ==
    /\ n \in 1..Len(fetching) /\ fetching[n].pc = "sent"
    /\ fetching' = [fetching EXCEPT ![n] = [pc |-> "answered", data |-> albumImages]]
    /\ UNCHANGED <<albumImages, nextImage, reorderLog, sessions, uploading,
                   deleting, reordering>>
    /\ UNCHANGED nonAlbumVars

\* fetchSessions after the await: setSessions(data)
fetchReturned(n) ==
    /\ n \in 1..Len(fetching) /\ fetching[n].pc = "answered"
    /\ sessions' = fetching[n].data
    /\ fetching' = [k \in 1..(Len(fetching) - 1) |->
                        IF k < n THEN fetching[k] ELSE fetching[k + 1]]
    /\ UNCHANGED <<albumImages, nextImage, reorderLog, uploading, deleting,
                   reordering>>
    /\ UNCHANGED nonAlbumVars

\* uploadImages(sessionId, files) up to its first await
uploadImages(files) ==
    /\ ~uploading.active
    /\ nextImage + files - 1 <= NumImg
    /\ uploading' = [active |-> TRUE, left |-> files]
    /\ UNCHANGED <<albumImages, nextImage, reorderLog, sessions, deleting,
                   reordering, fetching>>
    /\ UNCHANGED nonAlbumVars

\* one turn of the loop: the file is uploaded and added to the session, the
\* backend assigns its order
uploadAdded ==
    /\ uploading.active /\ uploading.left > 0
    /\ albumImages' = addImage(albumImages, nextImage)
    /\ nextImage' = nextImage + 1
    /\ uploading' = [uploading EXCEPT !.left = uploading.left - 1]
    /\ UNCHANGED <<reorderLog, sessions, deleting, reordering, fetching>>
    /\ UNCHANGED nonAlbumVars

\* a POST of the loop throws: catch, finally
uploadFailed ==
    /\ uploading.active /\ uploading.left > 0
    /\ uploading' = NoUpload
    /\ UNCHANGED <<albumImages, nextImage, reorderLog, sessions, deleting,
                   reordering, fetching>>
    /\ UNCHANGED nonAlbumVars

\* after the loop: fetchSessions(), finally
uploadDone ==
    /\ uploading.active /\ uploading.left = 0
    /\ Len(fetching) < MaxFetch
    /\ uploading' = NoUpload
    /\ fetching' = fetchSessions(fetching)
    /\ UNCHANGED <<albumImages, nextImage, reorderLog, sessions, deleting,
                   reordering>>
    /\ UNCHANGED nonAlbumVars

\* deleteImage(imageId) up to the await, for an image the page shows
deleteImage(id) ==
    /\ sessions[id] # 0 /\ deleting.pc = "none"
    /\ deleting' = [pc |-> "sent", id |-> id]
    /\ UNCHANGED <<albumImages, nextImage, reorderLog, sessions, uploading,
                   reordering, fetching>>
    /\ UNCHANGED nonAlbumVars

\* the backend serves the DELETE: NotFound for an image that is gone
deleteServed ==
    /\ deleting.pc = "sent"
    /\ IF albumImages[deleting.id] # 0
       THEN /\ albumImages' = removeImage(albumImages, deleting.id)
            /\ deleting' = [deleting EXCEPT !.pc = "ok"]
       ELSE /\ albumImages' = albumImages
            /\ deleting' = [deleting EXCEPT !.pc = "error"]
    /\ UNCHANGED <<nextImage, reorderLog, sessions, uploading, reordering, fetching>>
    /\ UNCHANGED nonAlbumVars

\* deleteImage after the await: fetchSessions(), or console.error
deleteReturned ==
    /\ deleting.pc \in {"ok", "error"}
    /\ IF deleting.pc = "ok"
       THEN /\ Len(fetching) < MaxFetch
            /\ fetching' = fetchSessions(fetching)
       ELSE fetching' = fetching
    /\ deleting' = NoDelete
    /\ UNCHANGED <<albumImages, nextImage, reorderLog, sessions, uploading,
                   reordering>>
    /\ UNCHANGED nonAlbumVars

\* a drag ends on another image: handleDragEnd, then reorderImages up to the
\* await: the page's list is replaced at once and the PUT is sent.  Nothing
\* keeps a second drag from ending while an earlier PUT is in flight; n is
\* the first free place among the PUTs in flight.
reorderImages(n, active, over) ==
    /\ sessions[active] # 0 /\ sessions[over] # 0 /\ active # over
    /\ reordering[n].pc = "none" /\ \A j \in 1..(n - 1) : reordering[j].pc # "none"
    /\ LET images == handleDragEnd(sessions, active, over)
       IN /\ sessions' = ordered(images)
          /\ reordering' = [reordering EXCEPT ![n] = [pc |-> "sent", image_orders |-> images]]
    /\ UNCHANGED <<albumImages, nextImage, reorderLog, uploading, deleting, fetching>>
    /\ UNCHANGED nonAlbumVars

\* the backend serves a PUT: a reorder that does not list exactly the
\* images of the session is rejected, or applied and renormalized
reorderServed(n, reject) ==
    /\ reordering[n].pc = "sent"
    /\ LET full == covers(albumImages, reordering[n].image_orders)
           listed == {reordering[n].image_orders[k] : k \in 1..Len(reordering[n].image_orders)}
       IN /\ reject => ~full
          /\ albumImages' = IF reject THEN albumImages
                            ELSE applyReorder(albumImages, reordering[n].image_orders)
          /\ reorderLog' = [outcome |-> IF reject THEN "rejected"
                                        ELSE IF full THEN "applied" ELSE "renormalized",
                            missing |-> present(albumImages) \ listed,
                            unknown |-> listed \ present(albumImages)]
          /\ reordering' = [reordering EXCEPT ![n].pc = IF reject THEN "error" ELSE "ok"]
    /\ UNCHANGED <<nextImage, sessions, uploading, deleting, fetching>>
    /\ UNCHANGED nonAlbumVars

\* a PUT never reaches the backend: api.put throws
reorderFailed(n) ==
    /\ reordering[n].pc = "sent"
    /\ reordering' = [reordering EXCEPT ![n].pc = "error"]
    /\ UNCHANGED <<albumImages, nextImage, reorderLog, sessions, uploading,
                   deleting, fetching>>
    /\ UNCHANGED nonAlbumVars

\* reorderImages after the await: nothing more, or fetchSessions() in the catch
reorderReturned(n) ==
    /\ reordering[n].pc \in {"ok", "error"}
    /\ IF reordering[n].pc = "error"
       THEN /\ Len(fetching) < MaxFetch
            /\ fetching' = fetchSessions(fetching)
       ELSE fetching' = fetching
    /\ reordering' = [reordering EXCEPT ![n] = NoPut]
    /\ UNCHANGED <<albumImages, nextImage, reorderLog, sessions, uploading, deleting>>
    /\ UNCHANGED nonAlbumVars

\* the page mounts: useEffect(() => { fetchSessions() }, [])
InitAlbum ==
    /\ albumImages = [i \in Images |-> IF i <= 2 THEN i ELSE 0]
    /\ nextImage = 3
    /\ reorderLog = NoReorder
    /\ sessions = NoImages
    /\ uploading = NoUpload
    /\ deleting = NoDelete
    /\ reordering = [n \in Puts |-> NoPut]
    /\ fetching = fetchSessions(<< >>)
    /\ localStorage = [k \in Keys |-> IF k = "wedding_subdomain" THEN "alice" ELSE 1]
    /\ isRefreshing = FALSE /\ failedQueue = << >>
    /\ req = [r \in Req |-> NewRequest]
    /\ href = "/edit/1/albums" /\ navigating = FALSE /\ logins = 0
    /\ issued = 1 /\ expired = 0
    /\ IdleRoute /\ IdleGuest /\ IdleAccount /\ IdleRoster

NextAlbum ==
    \/ \E n \in 1..MaxFetch : fetchServed(n)
    \/ \E n \in 1..MaxFetch : fetchReturned(n)
    \/ \E files \in 1..2 : uploadImages(files)
    \/ uploadAdded
    \/ uploadFailed
    \/ uploadDone
    \/ \E id \in Images : deleteImage(id)
    \/ deleteServed
    \/ deleteReturned
    \/ \E active, over \in Images : reorderImages(1, active, over)
    \/ \E reject \in BOOLEAN : reorderServed(1, reject)
    \/ reorderFailed(1)
    \/ reorderReturned(1)

\* uploads, deletes and one drag at a time
SpecAlbum == InitAlbum /\ [][NextAlbum]_vars

\* ----------------------------------------------------- concurrent reorders
\* the page shows a session of two images and uploads nothing; drags may
\* follow one another while earlier PUTs are in flight
InitReorder ==
    /\ albumImages = [i \in Images |-> IF i <= 2 THEN i ELSE 0]
    /\ nextImage = NumImg + 1
    /\ reorderLog = NoReorder
    /\ sessions = NoImages
    /\ uploading = NoUpload
    /\ deleting = NoDelete
    /\ reordering = [n \in Puts |-> NoPut]
    /\ fetching = fetchSessions(<< >>)
    /\ localStorage = [k \in Keys |-> IF k = "wedding_subdomain" THEN "alice" ELSE 1]
    /\ isRefreshing = FALSE /\ failedQueue = << >>
    /\ req = [r \in Req |-> NewRequest]
    /\ href = "/edit/1/albums" /\ navigating = FALSE /\ logins = 0
    /\ issued = 1 /\ expired = 0
    /\ IdleRoute /\ IdleGuest /\ IdleAccount /\ IdleRoster

NextReorder ==
    \/ \E n \in 1..MaxFetch : fetchServed(n)
    \/ \E n \in 1..MaxFetch : fetchReturned(n)
    \/ \E id \in Images : deleteImage(id)
    \/ deleteServed
    \/ deleteReturned
    \/ \E n \in Puts, active, over \in Images : reorderImages(n, active, over)
    \/ \E n \in Puts, reject \in BOOLEAN : reorderServed(n, reject)
    \/ \E n \in Puts : reorderFailed(n)
    \/ \E n \in Puts : reorderReturned(n)

SpecReorder == InitReorder /\ [][NextReorder]_vars

\* =============================================================== accounts
\* ------------------------------------------------ the subdomain of an account
\* the values typed into the subdomain input of the dashboard
Typed == {"alice", "Alice", "WWW", "b.ob", "al"}

\* .replace(/[^a-z0-9-]/g, '') on the values of the model
replaceNonSlug(value) ==
    CASE value = "b.ob" -> "bob"
      [] value = "Alice" -> "lice"
      [] value = "Admin" -> "dmin"
      [] value = "WWW" -> ""
      [] OTHER -> value

\* String.prototype.length on the values of the model
length(value) ==
    CASE value = "" -> 0
      [] value = "al" -> 2
      [] value \in {"www", "bob"} -> 3
      [] value \in {"lice", "dmin", "b.ob"} -> 4
      [] OTHER -> 5

\* the input's onChange: e.target.value.toLowerCase().replace(/[^a-z0-9-]/g, '')
onChangeSubdomain(value) == replaceNonSlug(toLowerCase(value))

\* the form's required, minLength={3} and maxLength={50}
formAccepts(value) == length(value) >= 3 /\ length(value) <= 50

\* setSubdomain, the validation: the format (lowercase letters, digits, hyphens,
\* 3 to 50 characters), then the reserved names in any letter case
validateCandidateFormatOnly(candidate) ==
    IF \/ replaceNonSlug(candidate) # candidate
       \/ length(candidate) < 3 \/ length(candidate) > 50
    THEN "Validation" ELSE "ok"
validateCandidate(candidate) ==
    IF \/ replaceNonSlug(candidate) # candidate
       \/ length(candidate) < 3 \/ length(candidate) > 50
    THEN "Validation"
    ELSE IF toLowerCase(candidate) \in SYSTEM_SUBDOMAINS THEN "Conflict" ELSE "ok"

\* the accounts other than a that hold the candidate, compared case-insensitively
holders(accts, a, candidate) ==
    {b \in Accounts \ {a} : accts[b].subdomain = toLowerCase(candidate)}

\* setSubdomain, the write: the uniqueness constraint of the storage layer
\* lets the write through only when no other account holds the name
uniqueWriteOverwrites(accts, a, candidate) ==
    [ok |-> TRUE, accounts |-> [accts EXCEPT ![a].subdomain = toLowerCase(candidate)]]
uniqueWrite(accts, a, candidate) ==
    IF holders(accts, a, candidate) # {}
    THEN [ok |-> FALSE, accounts |-> accts]
    ELSE [ok |-> TRUE, accounts |-> [accts EXCEPT ![a].subdomain = toLowerCase(candidate)]]

\* ------------------------------------------------------ Intros and ownership
owned(rows, a) == {i \in Intros : rows[i].owner = a}

\* the Intro of an account: its single, or first-created, Intro; 0 = none
firstIntro(rows, a) ==
    IF owned(rows, a) = {} THEN 0
    ELSE CHOOSE i \in owned(rows, a) : \A j \in owned(rows, a) : i <= j

\* the ownership check of every mutating endpoint: the subject of the bearer
\* token owns the Intro, or is an administrator
authorizeAnyone(accts, rows, caller, i) == i \in Intros /\ rows[i].owner # Null
authorize(accts, rows, caller, i) ==
    /\ i \in Intros
    /\ rows[i].owner # Null
    /\ (rows[i].owner = caller \/ accts[caller].role = "root")

\* createIntro: the quota of the account
withinQuota(accts, rows, a) == Cardinality(owned(rows, a)) < accts[a].max_invite

\* part_002:147  const canCreateMore = user && intros.length < user.max_invite
canCreateMoreOrEqual(user, introsLength) == introsLength <= user.max_invite
canCreateMore(user, introsLength) == introsLength < user.max_invite

\* a mutation of an Intro, or of what it owns, asked by a caller: taken when
\* the caller is authorized, rejected otherwise
mutate(accts, rows, caller, i) ==
    IF authorize(accts, rows, caller, i)
    THEN [rows EXCEPT ![i].by = caller]
    ELSE IF i \in Intros /\ rows[i].owner # Null
         THEN [rows EXCEPT ![i].denied = caller] ELSE rows

\* ---------------------------------------------------------------- actions
\* the quotas of the accounts: together they fit the Intro ids of the model
Quotas == {q \in [Accounts -> 1..NumIntro] : q["u2"] = 1 /\ q["u1"] + q["u2"] <= NumIntro}

\* every session has logged in and opens the dashboard; the first session is
\* u1's, u2 is an owner or the administrator
LoggedIn(q, rootRole, who) ==
    /\ accounts = [a \in Accounts |->
                     [role |-> IF a = "u2" THEN rootRole ELSE "user",
                      max_invite |-> q[a], subdomain |-> Null]]
    /\ dash = [s \in Sess |-> NewDash(who[s], q[who[s]])]
    /\ intros = [i \in Intros |-> NoIntro]
    /\ localStorage = [k \in Keys |-> IF k = "wedding_subdomain" THEN Null ELSE 1]
    /\ isRefreshing = FALSE /\ failedQueue = << >>
    /\ req = [r \in Req |-> NewRequest]
    /\ href = "/dashboard" /\ navigating = FALSE /\ logins = 0
    /\ issued = 1 /\ expired = 0
    /\ IdleRoute /\ IdleGuest /\ IdleAlbum /\ IdleRoster

InitSubdomain ==
    /\ \E who \in {w \in [Sess -> Accounts] : w[1] = "u1"} :
         LoggedIn([a \in Accounts |-> 1], "user", who)

InitIntro ==
    /\ \E q \in Quotas, role \in {"user", "root"},
          who \in {w \in [Sess -> Accounts] : w[1] = "u1"} : LoggedIn(q, role, who)

\* part_002:105  GET /landing-page/intros, the Intros of the caller
fetchIntros(d, rows) ==
    [d EXCEPT !.intros = Cardinality(owned(rows, d.account)), !.loading = FALSE]

\* part_002:60  GET /user/subdomain: setSubdomain(response.data.subdomain || '')
fetchSubdomainInfo(d, accts) ==
    [d EXCEPT !.subdomain = IF accts[d.account].subdomain = Null
                            THEN "" ELSE accts[d.account].subdomain]

\* part_002:46  the dashboard mounts
DashboardMount(s) ==
    /\ dash[s].loading
    /\ dash' = [dash EXCEPT ![s] = fetchSubdomainInfo(fetchIntros(dash[s], intros), accounts)]
    /\ UNCHANGED <<accounts, intros, nonAccountVars>>

\* part_002:426  the owner types into the subdomain input.  A value typed while
\* a PUT is in flight changes neither that request nor the handling of its
\* answer, so the model types between requests only.
subdomainOnChange(s, value) ==
    /\ ~dash[s].loading
    /\ dash[s].put.pc = "none"
    /\ dash' = [dash EXCEPT ![s].subdomain = onChangeSubdomain(value)]
    /\ UNCHANGED <<accounts, intros, nonAccountVars>>

\* part_002:70  the form is submitted: PUT /user/subdomain { subdomain }
handleUpdateSubdomain(s) ==
    /\ ~dash[s].loading
    /\ dash[s].put.pc = "none"
    /\ formAccepts(dash[s].subdomain)
    /\ dash' = [dash EXCEPT ![s].subdomainError = FALSE,
                            ![s].put = [pc |-> "sent", subdomain |-> dash[s].subdomain,
                                        passed |-> FALSE]]
    /\ UNCHANGED <<accounts, intros, nonAccountVars>>

\* setSubdomain, first step: the candidate is validated and looked up
setSubdomainCheck(s) ==
    /\ dash[s].put.pc = "sent"
    /\ LET candidate == dash[s].put.subdomain
           outcome == validateCandidate(candidate)
           pc == IF outcome # "ok" THEN outcome
                 ELSE IF holders(accounts, dash[s].account, candidate) # {}
                      THEN "Conflict" ELSE "checked"
       IN dash' = [dash EXCEPT ![s].put.pc = pc, ![s].put.passed = (pc = "checked")]
    /\ UNCHANGED <<accounts, intros, nonAccountVars>>

\* setSubdomain, second step: the write under the uniqueness constraint
setSubdomainWrite(s) ==
    /\ dash[s].put.pc = "checked"
    /\ LET a == dash[s].account
           write == uniqueWrite(accounts, a, dash[s].put.subdomain)
       IN /\ accounts' = write.accounts
          /\ dash' = [dash EXCEPT ![s].put.pc = IF write.ok THEN "ok" ELSE "Conflict"]
    /\ UNCHANGED <<intros, nonAccountVars>>

\* part_002:76-102  the answer of PUT /user/subdomain arrives
handleUpdateSubdomainReturned(s) ==
    /\ dash[s].put.pc \in {"ok", "Conflict", "Validation"}
    /\ dash' = [dash EXCEPT
                  ![s].subdomainError = dash[s].put.pc # "ok",
                  ![s].put = NoSubdomainPut]
    /\ UNCHANGED <<accounts, intros, nonAccountVars>>

\* part_002:236  the create button, rendered only while canCreateMore
openCreateModal(s) ==
    /\ ~dash[s].loading
    /\ ~dash[s].showCreateModal
    /\ canCreateMore(dash[s].user, dash[s].intros)
    /\ dash' = [dash EXCEPT ![s].showCreateModal = TRUE]
    /\ UNCHANGED <<accounts, intros, nonAccountVars>>

\* the id a new Intro gets, 0 = the ids of the model are used up
nextIntro(rows) ==
    IF \A i \in Intros : rows[i].owner # Null THEN 0
    ELSE CHOOSE i \in Intros : rows[i].owner = Null /\ \A j \in 1..(i - 1) : rows[j].owner # Null

\* part_002:123  POST /landing-page/intro, then the list is fetched again
handleCreateIntro(s) ==
    /\ dash[s].showCreateModal
    /\ LET a == dash[s].account
           id == nextIntro(intros)
           ok == withinQuota(accounts, intros, a) /\ id # 0
       IN /\ intros' = IF ok THEN [intros EXCEPT ![id].owner = a] ELSE intros
          /\ dash' = [dash EXCEPT ![s] =
                        IF ok THEN fetchIntros([@ EXCEPT !.showCreateModal = FALSE,
                                                         !.error = FALSE], intros')
                        ELSE [@ EXCEPT !.error = TRUE]]
    /\ UNCHANGED <<accounts, nonAccountVars>>

\* edit/[id]/page.tsx:54  PUT /landing-page/intro: the request carries no Intro
\* id, the backend takes the Intro of the caller
handleSubmit(s, path) ==
    /\ intros' = mutate(accounts, intros, dash[s].account,
                        firstIntro(intros, dash[s].account))
    /\ UNCHANGED <<accounts, dash, nonAccountVars>>

\* edit/[id]/guests/page.tsx:71  POST /landing-page/guests { intro_id: introId }
createGuest(s, path) ==
    /\ intros' = mutate(accounts, intros, dash[s].account, path)
    /\ UNCHANGED <<accounts, dash, nonAccountVars>>

\* the dashboard with its subdomain form
NextSubdomain ==
    \/ \E s \in Sess : DashboardMount(s)
    \/ \E s \in Sess, value \in Typed : subdomainOnChange(s, value)
    \/ \E s \in Sess : handleUpdateSubdomain(s)
    \/ \E s \in Sess : setSubdomainCheck(s)
    \/ \E s \in Sess : setSubdomainWrite(s)
    \/ \E s \in Sess : handleUpdateSubdomainReturned(s)

SpecSubdomain == InitSubdomain /\ [][NextSubdomain]_vars

\* the dashboard with its Intros, and the edit pages
NextIntro ==
    \/ \E s \in Sess : DashboardMount(s)
    \/ \E s \in Sess : openCreateModal(s)
    \/ \E s \in Sess : handleCreateIntro(s)
    \/ \E s \in Sess, path \in Intros : handleSubmit(s, path)
    \/ \E s \in Sess, path \in Intros : createGuest(s, path)

SpecIntro == InitIntro /\ [][NextIntro]_vars

\* ============================================================ guest list
\* ------------------------------------------------- listing and statistics
\* listGuests: the number of pages and the items of a page, by creation order
pagesOf(ids) == (Len(ids) + PageSize - 1) \div PageSize
pageItems(ids, p) ==
    LET from == (p - 1) * PageSize + 1
        to == IF p * PageSize < Len(ids) THEN p * PageSize ELSE Len(ids)
    IN IF from > Len(ids) THEN << >> ELSE SubSeq(ids, from, to)

\* GET /landing-page/guests/stats
guestStats(reg) == [loaded |-> TRUE, total_guests |-> Len(reg.ids),
                    max_guests |-> reg.max_guests]

\* guests/page.tsx:111  currentPage === 1 && index === 0, index counted from 0
isFirstGuest(currentPage, index) == currentPage = 1 /\ index = 0

\* guests/page.tsx:131  disabled={!!(stats && stats.total_guests >= stats.max_guests)}
addGuestDisabled(stats) == stats.loaded /\ stats.total_guests >= stats.max_guests

\* useEffect(() => { fetchGuests(); fetchStats() }, [currentPage]) and the
\* calls after a mutation: both GETs leave with the page the closure holds
refetch(g) == [g EXCEPT !.statsPending = TRUE]

\* ---------------------------------------------------------------- actions
\* the page is mounted for an Intro that has its seed guest
InitRoster ==
    /\ \E quota \in {2, MaxGuest + 1}, policy \in BOOLEAN :
         roster = [ids |-> <<1>>, max_guests |-> quota, seedProtected |-> policy]
    /\ nextGuest = 2
    /\ gpage = refetch(NewGuestsPage)
    /\ fetches = {1}
    /\ modal = NoModal
    /\ localStorage = [k \in Keys |-> IF k = "wedding_subdomain" THEN Null ELSE 1]
    /\ isRefreshing = FALSE /\ failedQueue = << >>
    /\ req = [r \in Req |-> NewRequest]
    /\ href = "/edit/1/guests" /\ navigating = FALSE /\ logins = 0
    /\ issued = 1 /\ expired = 0
    /\ IdleRoute /\ IdleGuest /\ IdleAlbum /\ IdleAccount

\* guests/page.tsx:45  the answer of a GET /landing-page/guests arrives
fetchGuestsReturned(p) ==
    /\ p \in fetches
    /\ fetches' = fetches \ {p}
    /\ gpage' = [gpage EXCEPT !.guests = pageItems(roster.ids, p),
                              !.totalPages = pagesOf(roster.ids),
                              !.loading = FALSE]
    /\ UNCHANGED <<roster, nextGuest, modal, nonRosterVars>>

\* guests/page.tsx:60  the answer of GET /landing-page/guests/stats arrives
fetchStatsReturned ==
    /\ gpage.statsPending
    /\ gpage' = [gpage EXCEPT !.stats = guestStats(roster), !.statsPending = FALSE]
    /\ UNCHANGED <<roster, nextGuest, fetches, modal, nonRosterVars>>

\* guests/page.tsx:268-284  the buttons Truoc and Sau
setCurrentPage(to) ==
    /\ ~gpage.loading /\ gpage.totalPages > 1
    /\ to \in {gpage.currentPage - 1, gpage.currentPage + 1}
    /\ to >= 1 /\ to <= gpage.totalPages
    /\ gpage' = refetch([gpage EXCEPT !.currentPage = to])
    /\ fetches' = fetches \cup {to}
    /\ UNCHANGED <<roster, nextGuest, modal, nonRosterVars>>

\* guests/page.tsx:129  the button + Them khach
openGuestModal ==
    /\ ~addGuestDisabled(gpage.stats)
    /\ ~gpage.showCreateModal
    /\ gpage' = [gpage EXCEPT !.showCreateModal = TRUE]
    /\ UNCHANGED <<roster, nextGuest, fetches, modal, nonRosterVars>>

\* guests/page.tsx:71  POST /landing-page/guests: createGuest of the registry
\* knows no quota on guests
onSaveCreate ==
    /\ gpage.showCreateModal
    /\ nextGuest <= MaxGuest
    /\ roster' = [roster EXCEPT !.ids = Append(@, nextGuest)]
    /\ nextGuest' = nextGuest + 1
    /\ gpage' = refetch([gpage EXCEPT !.showCreateModal = FALSE])
    /\ fetches' = fetches \cup {gpage.currentPage}
    /\ UNCHANGED <<modal, nonRosterVars>>

\* deleteGuest of the registry: the seed guest stays when the policy holds
registryDelete(reg, id) ==
    IF reg.seedProtected /\ reg.ids # << >> /\ reg.ids[1] = id
    THEN [ok |-> FALSE, reg |-> reg]
    ELSE [ok |-> TRUE, reg |-> [reg EXCEPT !.ids = SelectSeq(@, LAMBDA g : g # id)]]

\* guests/page.tsx:96  DELETE /landing-page/guests/{id} from the row at index
deleteGuest(index) ==
    /\ ~gpage.loading
    /\ index < Len(gpage.guests)
    /\ ~isFirstGuest(gpage.currentPage, index)
    /\ LET answer == registryDelete(roster, gpage.guests[index + 1]) IN
       /\ roster' = answer.reg
       /\ gpage' = IF answer.ok THEN refetch([gpage EXCEPT !.errorMessage = FALSE])
                   ELSE [gpage EXCEPT !.errorMessage = TRUE]
       /\ fetches' = IF answer.ok THEN fetches \cup {gpage.currentPage} ELSE fetches
    /\ UNCHANGED <<nextGuest, modal, nonRosterVars>>

NextRoster ==
    \/ \E p \in 1..MaxGuest : fetchGuestsReturned(p)
    \/ fetchStatsReturned
    \/ \E to \in 1..MaxGuest : setCurrentPage(to)
    \/ openGuestModal
    \/ onSaveCreate
    \/ \E index \in 0..(PageSize - 1) : deleteGuest(index)

SpecRoster == InitRoster /\ [][NextRoster]_vars

\* ------------------------------------------------------------- GuestModal
\* A string is the sequence of its words and blanks; a word is one whole
\* token, so a prefix test never ends inside a word.  "Ba", "Anh/Chi" and
\* "Quy khach" stand for the labels of the list with their diacritics.
toLowerCaseString(str) == [i \in 1..Len(str) |-> toLowerCase(str[i])]

\* String.prototype.startsWith
startsWith(str, searchString) ==
    /\ Len(str) >= Len(searchString)
    /\ SubSeq(str, 1, Len(searchString)) = searchString

\* String.prototype.substring(indexStart), indexStart counted from 0
substring(str, indexStart) == SubSeq(str, indexStart + 1, Len(str))

\* String.prototype.trim
RECURSIVE trim(_)
trim(str) ==
    IF str = << >> THEN str
    ELSE IF str[1] = " " THEN trim(SubSeq(str, 2, Len(str)))
    ELSE IF str[Len(str)] = " " THEN trim(SubSeq(str, 1, Len(str) - 1))
    ELSE str

\* guests/page.tsx:323-342  the values of RELATIONSHIPS, in the order of the
\* list: '', Ba, Anh, Em, Anh/Chi, Quy khach
RELATIONSHIPS ==
    << << >>, <<"Ba">>, <<"Anh">>, <<"Em">>, <<"Anh/Chi">>, <<"Quy", " ", "khach">> >>

\* guests/page.tsx:345-356  the first label of the list that the name starts
\* with, in any case, is cut off together with the blank after it
parseGuestName(fullName, relationship) ==
    LET hits == {k \in 1..Len(RELATIONSHIPS) :
                   /\ RELATIONSHIPS[k] # << >>
                   /\ startsWith(toLowerCaseString(fullName),
                                 toLowerCaseString(RELATIONSHIPS[k]) \o <<" ">>)}
    IN IF relationship # << >> /\ hits # {}
       THEN LET k == CHOOSE h \in hits : \A o \in hits : h <= o
            IN substring(fullName, Len(RELATIONSHIPS[k]) + 1)
       ELSE fullName

\* guests/page.tsx:358-362  useState of formData
initialFormData(guest) ==
    [name |-> parseGuestName(guest.name, guest.user_relationship),
     relationship |-> guest.user_relationship,
     confirm |-> guest.confirm]

\* guests/page.tsx:365-370
getFullDisplayName(formData) ==
    IF formData.relationship # << >> /\ trim(formData.name) # << >>
    THEN formData.relationship \o <<" ">> \o trim(formData.name)
    ELSE trim(formData.name)

\* the names a guest row can carry: with and without a label in front, in
\* another case, with another label than its own, with a blank at the end
StoredNames ==
    { <<"Minh">>, <<"Minh", " ">>,
      <<"Ba", " ", "Minh">>, <<"Anh", " ", "Minh">>, <<"anh", " ", "Minh">>,
      <<"Em", " ", "Minh">>, <<"Em", " ", "Anh", " ", "Minh">>,
      <<"Anh/Chi", " ", "Minh">>, <<"Quy", " ", "khach", " ", "Minh">> }

StoredGuests ==
    [name : StoredNames,
     user_relationship : {RELATIONSHIPS[k] : k \in 1..Len(RELATIONSHIPS)},
     confirm : BOOLEAN]

\* the list shows a stored guest
InitModal ==
    /\ \E guest \in StoredGuests : modal = [NoModal EXCEPT !.guest = guest]
    /\ roster = [ids |-> <<1>>, max_guests |-> MaxGuest + 1, seedProtected |-> FALSE]
    /\ nextGuest = 2 /\ gpage = NewGuestsPage /\ fetches = {}
    /\ localStorage = [k \in Keys |-> IF k = "wedding_subdomain" THEN "alice" ELSE 1]
    /\ isRefreshing = FALSE /\ failedQueue = << >>
    /\ req = [r \in Req |-> NewRequest]
    /\ href = "/edit/1/guests" /\ navigating = FALSE /\ logins = 0
    /\ issued = 1 /\ expired = 0
    /\ IdleRoute /\ IdleGuest /\ IdleAlbum /\ IdleAccount

\* guests/page.tsx:247  the pencil of the row: setEditingGuest(guest), and
\* GuestModal mounts with its initial formData
openEditModal ==
    /\ ~modal.open
    /\ modal' = [modal EXCEPT !.open = TRUE, !.formData = initialFormData(modal.guest)]
    /\ UNCHANGED <<roster, nextGuest, gpage, fetches, nonRosterVars>>

\* the modal's cancel button
closeEditModal ==
    /\ modal.open
    /\ modal' = [modal EXCEPT !.open = FALSE, !.formData = NoFormData]
    /\ UNCHANGED <<roster, nextGuest, gpage, fetches, nonRosterVars>>

\* guests/page.tsx:372-379  the save button, enabled for a name that is not
\* blank: onSave({name: fullName, user_relationship, confirm})
saveEditModal ==
    /\ modal.open
    /\ trim(modal.formData.name) # << >>
    /\ modal' = [modal EXCEPT !.open = FALSE,
                              !.formData = NoFormData,
                              !.saved = TRUE,
                              !.data = [name |-> getFullDisplayName(modal.formData),
                                        user_relationship |-> modal.formData.relationship,
                                        confirm |-> modal.formData.confirm]]
    /\ UNCHANGED <<roster, nextGuest, gpage, fetches, nonRosterVars>>

NextModal ==
    \/ openEditModal
    \/ closeEditModal
    \/ saveEditModal

SpecModal == InitModal /\ [][NextModal]_vars

\* ------------------------------------------------ claims on the API client
RefreshInFlight == {r \in Req : req[r].pc = "refreshing"}

\* C1: token refresh is single-flight: in every reachable state at most one
\* call to the refresh endpoint is in flight.
C1_SingleFlight == Cardinality(RefreshInFlight) <= 1

\* a refresh is in flight and another request's 401 arrived meanwhile
C1_Witness ==
    \E r, q \in Req : req[r].pc = "refreshing" /\ req[q].pc = "queued"

\* a 401 is handled while a refresh call is in flight
Handled401WhileRefreshing(r) ==
    req[r].pc = "resp401" /\ isRefreshing /\ req'[r].pc # "resp401"

\* a queued request leaves the queue only in the step that ends a refresh call
LeavesQueueWithRefresh(r) ==
    (req[r].pc = "queued" /\ req'[r].pc # "queued")
        => \E s \in Req : req[s].pc = "refreshing" /\ req'[s].pc # "refreshing"

\* when a refresh call succeeds, every queued request is sent again, with the
\* access token that refresh issued
ResentWithNewToken(r) ==
    /\ (req[r].pc = "queued" /\ \E s \in Req : req[s].pc = "refreshing" /\ req'[s].pc = "sent")
           => req'[r].pc = "sent"
    /\ (req[r].pc = "queued" /\ req'[r].pc = "sent")
           => /\ issued' = issued + 1
              /\ req'[r].hdr = issued'
              /\ req'[r].hdr = localStorage'["access_token"]

\* C2 as stated: every request that receives a 401 while a refresh call is in
\* flight is queued, is not sent again before that refresh resolves, and after
\* a successful refresh is sent again with the newly issued access token.
C2_Original ==
    [][\A r \in Req :
          /\ Handled401WhileRefreshing(r) => req'[r].pc = "queued"
          /\ LeavesQueueWithRefresh(r)
          /\ ResentWithNewToken(r)]_vars

\* C2 as amended: a request that receives a 401 while a refresh call is in
\* flight is queued when it has not itself been retried by a refresh (_retry
\* unset) and a refresh token is stored; a queued request is not sent again
\* before that refresh resolves, and after a successful refresh it is sent
\* again with the newly issued access token.
C2_Amended ==
    [][\A r \in Req :
          /\ (Handled401WhileRefreshing(r) /\ ~req[r].retry
                  /\ localStorage["refresh_token"] # 0) => req'[r].pc = "queued"
          /\ LeavesQueueWithRefresh(r)
          /\ ResentWithNewToken(r)]_vars

\* a request waited in the queue and was sent again with the new token
C2_Witness ==
    \E r \in Req : req[r].waited /\ req[r].pc = "sent" /\ req[r].hdr = issued
                     /\ req[r].hdr = localStorage["access_token"]

\* C3: when the refresh call fails, every queued request is rejected with the
\* same refresh error and is not sent again, the request that started the
\* refresh is rejected too, the stored tokens are cleared and the browser is
\* sent to /login.
C3_RefreshFailure ==
    [][\A r \in Req :
          (req[r].pc = "refreshing" /\ req'[r].pc = "rejected")
              => /\ req'[r].err = RefreshError(r)
                 /\ \A q \in Req : req[q].pc = "queued"
                        => /\ req'[q].pc = "rejected"
                           /\ req'[q].err = req'[r].err
                           /\ req'[q].resent = req[q].resent
                 /\ failedQueue' = << >>
                 /\ localStorage'["access_token"] = 0
                 /\ localStorage'["refresh_token"] = 0
                 /\ href' = "/login" /\ navigating']_vars

\* a refresh failed with a request waiting in the queue
C3_Witness ==
    \E r, q \in Req :
        /\ r # q
        /\ req[r].pc = "rejected" /\ req[r].err = RefreshError(r)
        /\ req[q].pc = "rejected" /\ req[q].err = RefreshError(r)

\* C4: whenever a request sent through the API client finally fails with a
\* 401, the client discards its stored tokens and forces re-login.
C4_FailedAuthDiscardsTokens ==
    [][\A r \in Req :
          (req[r].pc # "rejected" /\ req'[r].pc = "rejected")
              => /\ localStorage'["access_token"] = 0
                 /\ localStorage'["refresh_token"] = 0
                 /\ href' = "/login"]_vars

\* ---------------------------------------------------- claims on the routing
\* the administrative paths: login, dashboard, edit, preview and their sub-paths
IsAdminPath(path) ==
    Len(path) > 0 /\ path[1] \in {"login", "dashboard", "edit", "preview"}

\* C5: for a request to an administrative path made from a host that carries
\* a subdomain, the subdomain is ignored: the request is not validated against
\* it, not rewritten to not-found because of it and not identified by it.
\* (The access token is required by the pages themselves.)
C5_AdminRouteIgnoresSubdomain ==
    (mw.done /\ IsAdminPath(pathname) /\ mwGetSubdomain(host, port) # Null)
        => /\ ~mw.validated
           /\ mw.result = "next"
           /\ mw.header = Null

\* the guest of the path belongs to Intro I1, the subdomain of the host to
\* another Intro I2
CrossTenant ==
    /\ IsGuestPath(pathname)
    /\ guestIntro(pathname[1]) # 0
    /\ resolveBySubdomain(mwGetSubdomain(host, port)) # 0
    /\ resolveBySubdomain(mwGetSubdomain(host, port)) # guestIntro(pathname[1])

\* C6: cross-tenant isolation: resolving guest G of Intro I1 under the
\* subdomain of Intro I2 yields NotFound, and none of the fetches issued for
\* the page (publicFetch, the metadata fetch of the layout) returns data of I1.
C6_CrossTenantIsolation ==
    CrossTenant
        => /\ meta.intro = 0
           /\ page.data = 0
           /\ page.pc # "shown"

\* the rule of the specification: at least 4 labels, first label not reserved
ReservedNames == {"www", "api", "admin", "mail", "ftp", "cpanel"}
RuleSubdomain(hostname) ==
    IF Len(hostname) >= 4 /\ toLowerCase(hostname[1]) \notin ReservedNames
    THEN toLowerCase(hostname[1]) ELSE Null

\* C10 as stated: for every host, a subdomain is derived exactly when the host
\* has at least 4 labels and its first label is not reserved, and it is then
\* the lowercased first label; for every other host none is derived.
C10_Original ==
    parsed.done => /\ parsed.cfg = RuleSubdomain(host)
                   /\ parsed.mw = RuleSubdomain(host)

\* C10 as amended: that rule holds for every host other than localhost and
\* 127.0.0.1; for these two the middleware derives no subdomain and
\* getSubdomainFromUrl returns the stored wedding_subdomain key (none when the
\* key is unset).
C10_Amended ==
    parsed.done =>
        IF IsLocalhost(host)
        THEN /\ parsed.mw = Null
             /\ parsed.cfg = localStorage["wedding_subdomain"]
        ELSE /\ parsed.cfg = RuleSubdomain(host)
             /\ parsed.mw = RuleSubdomain(host)

\* a subdomain was derived from a host whose first label is not lowercase
C10_Witness ==
    /\ parsed.done /\ ~IsLocalhost(host)
    /\ Len(host) >= 4
    /\ parsed.cfg # Null /\ parsed.cfg # host[1] /\ parsed.mw = parsed.cfg


\* C11: reserved system names never resolve: for every host whose first label
\* is www, api, admin, mail, ftp or cpanel in any letter case, none of the
\* client's parsers (config, middleware, API client) derives a subdomain, so
\* no X-Subdomain header is sent.
C11_ReservedNeverResolve ==
    (parsed.done /\ toLowerCase(host[1]) \in ReservedNames)
        => /\ parsed.cfg = Null
           /\ parsed.mw = Null
           /\ parsed.api = Null

\* C12: a single subdomain rule: for every hostname and every content of the
\* stored wedding_subdomain key, the subdomain the API client sends as
\* X-Subdomain equals the one getSubdomainFromUrl and the middleware derive
\* from the host.
C12_SingleSubdomainRule ==
    parsed.done => /\ parsed.api = parsed.cfg
                   /\ parsed.api = parsed.mw

\* the request has been answered and the page has settled
PageSettled == mw.result = "rewrite" \/ page.pc \notin {"loading", "fetching"}

\* the outcome NotFound: the rewrite of the middleware, the router sent to
\* /not-found, or the not-found view of the page
NotFoundOutcome ==
    mw.result = "rewrite" \/ page.href = "/not-found" \/ page.pc = "error"

\* neither the host nor the browser yields a subdomain
NoSubdomain == parsed.done /\ parsed.cfg = Null /\ parsed.mw = Null

\* C13: legacy guest path: for a public request with no subdomain and the id
\* of an existing guest in the path, the guest is resolved directly and the
\* landing page of its owning Intro is served, not NotFound.
C13_LegacyGuestPath ==
    (NoSubdomain /\ IsGuestPath(pathname) /\ guestIntro(pathname[1]) # 0 /\ PageSettled)
        => /\ ~NotFoundOutcome
           /\ page.pc = "shown"
           /\ page.data = guestIntro(pathname[1])

\* C14: a public request that carries neither a subdomain nor a guest id has
\* the outcome NotFound and is not turned into any other outcome.
C14_NeitherIsNotFound ==
    (NoSubdomain /\ pathname = << >> /\ PageSettled)
        => /\ NotFoundOutcome
           /\ page.pc # "pushed"
           /\ page.data = 0

\* the causes of NotFound on a public route
UnregisteredSubdomain ==
    /\ IsGuestPath(pathname) \/ pathname = << >>
    /\ mwGetSubdomain(host, port) # Null
    /\ resolveBySubdomain(mwGetSubdomain(host, port)) = 0
UnknownGuest ==
    /\ IsGuestPath(pathname) /\ guestIntro(pathname[1]) = 0
    /\ resolveBySubdomain(mwGetSubdomain(host, port)) # 0

\* what an observer of the response sees: a not-found view or not (the
\* not-found views of the pages are taken as alike), and the Intro whose names
\* and photo the title and the og tags of the page carry (0 = the default title)
Response == [notFound |-> NotFoundOutcome, title |-> meta.intro]
GenericNotFound == [notFound |-> TRUE, title |-> 0]

\* C15: NotFound on public routes is uniform: for an unregistered subdomain,
\* an unknown guest id and a guest id of another tenant the response shown is
\* the same generic not-found response.
C15_UniformNotFound ==
    (PageSettled /\ (UnregisteredSubdomain \/ UnknownGuest \/ CrossTenant))
        => Response = GenericNotFound

C8_ConfirmOnlyResetByOwner ==
    [][\A g \in Guests :
         (guestConfirm[g] /\ ~guestConfirm'[g])
            => /\ owner.put = "sent" /\ owner.editingGuest = g
               /\ ~owner.saved.confirm
               /\ serverLog'.kind = "update" /\ serverLog'.guest = g
               /\ tab' = tab]_vars

\* the owner has reset the flag of a guest whose invite section holds
\* hasConfirmed
C8_Witness ==
    /\ serverLog.kind = "update" /\ serverLog.alreadyConfirmed
    /\ ~guestConfirm[serverLog.guest]
    /\ \E t \in Tabs : tab[t].guestId = serverLog.guest /\ tab[t].hasConfirmed


\* ------------------------------------------- claims on the album session
\* the orders of the images are exactly 1..N, with no gap and no duplicate
contiguous(imgs) ==
    /\ {imgs[i] : i \in present(imgs)} = 1..Cardinality(present(imgs))
    /\ \A i, j \in present(imgs) : imgs[i] = imgs[j] => i = j

\* C9: album order contiguity: after any sequence of add, delete and reorder
\* operations the images of the session, as stored and as read back, carry
\* the orders exactly 1..N with no gap and no duplicate, and every reorder
\* write covers the full set of images of the session.
C9_AlbumOrderContiguity ==
    /\ contiguous(albumImages)
    /\ \A n \in 1..Len(fetching) :
           fetching[n].pc = "answered" => contiguous(fetching[n].data)
    /\ reorderLog.outcome # "none" => reorderLog.missing = {}

\* ------------------------------------------- claims on accounts and Intros
\* the caller may act on the Intro: it owns it or is the administrator
MayActOn(caller, i) == intros[i].owner = caller \/ accounts[caller].role = "root"

\* C16: every mutating operation on an Intro, or on what the Intro owns, is
\* taken only when the account of the bearer token owns the Intro or is the
\* administrator, and is rejected for every other caller, whatever Intro id
\* the path of the page holds.
C16_TenantOwnership ==
    \A i \in Intros :
       /\ intros[i].by # Null => intros[i].owner # Null /\ MayActOn(intros[i].by, i)
       /\ intros[i].denied # Null => intros[i].owner # Null /\ ~MayActOn(intros[i].denied, i)

\* an Intro of u1 took a mutation of u1 and rejected one of the owner u2, and
\* an Intro of u2 rejected a mutation of u1
C16_Witness ==
    \E i \in Intros :
       /\ intros[i].owner = "u1" /\ intros[i].by = "u1" /\ intros[i].denied = "u2"
       /\ accounts["u2"].role = "user"
       /\ \E j \in Intros : intros[j].owner = "u2" /\ intros[j].denied = "u1"

\* ------------------------------------------------- claims on the subdomains
\* no two accounts hold the same subdomain, compared case-insensitively
UniqueSubdomains ==
    \A a, b \in Accounts :
       (a # b /\ accounts[a].subdomain # Null)
          => toLowerCase(accounts[a].subdomain) # toLowerCase(accounts[b].subdomain)

\* the write of session s ends: with Conflict and nothing written when another
\* account holds the name, with success and the name assigned otherwise
WriteEnds(s) ==
    LET a == dash[s].account
        name == toLowerCase(dash[s].put.subdomain)
    IN IF \E b \in Accounts \ {a} : accounts[b].subdomain # Null
                                    /\ toLowerCase(accounts[b].subdomain) = name
       THEN dash'[s].put.pc = "Conflict" /\ accounts' = accounts
       ELSE dash'[s].put.pc = "ok"
            /\ accounts' = [accounts EXCEPT ![a].subdomain = name]

\* C17: when two different accounts claim the same subdomain, in any
\* interleaving, the first write succeeds and the write of the other fails
\* with Conflict; no two accounts ever hold the same subdomain (compared
\* case-insensitively).
C17_SubdomainUniqueness ==
    /\ []UniqueSubdomains
    /\ [][\A s \in Sess :
            (dash[s].put.pc = "checked" /\ dash'[s].put.pc # "checked") => WriteEnds(s)]_vars

\* two accounts raced for one name: both passed the lookup, one write
\* succeeded, the other met the constraint
C17_Witness ==
    \E s, t \in Sess :
       /\ dash[s].account # dash[t].account
       /\ dash[s].put.subdomain = dash[t].put.subdomain
       /\ dash[s].put.pc = "ok" /\ dash[s].put.passed
       /\ dash[t].put.pc = "Conflict" /\ dash[t].put.passed
       /\ accounts[dash[s].account].subdomain = dash[s].put.subdomain
       /\ accounts[dash[t].account].subdomain # dash[t].put.subdomain

\* the reserved names in the letter cases of the model
ReservedInAnyCase == ReservedNames \cup {"WWW", "Admin"}

\* the request of session s carries a reserved name
AsksReserved(s) == toLowerCase(dash[s].put.subdomain) \in ReservedNames

\* C18: for every reserved name (www, api, admin, mail, ftp, cpanel) in any
\* letter case and every account, setSubdomain fails with Conflict or
\* Validation and leaves the subdomain of the account unchanged.
C18_ReservedNameRejection ==
    /\ [](/\ \A R \in ReservedInAnyCase : validateCandidate(R) \in {"Conflict", "Validation"}
          /\ \A a \in Accounts : accounts[a].subdomain \notin ReservedInAnyCase
          /\ \A s \in Sess : (AsksReserved(s) /\ dash[s].put.pc \notin {"none", "sent"})
                               => dash[s].put.pc \in {"Conflict", "Validation"})
    /\ [][\A s \in Sess : (AsksReserved(s) /\ dash'[s].put.pc # dash[s].put.pc)
                            => accounts' = accounts]_vars

\* an account that holds a name asked for www, typed in capitals: the request
\* failed and the account still holds its name
C18_Witness ==
    \E s \in Sess :
       /\ dash[s].put.subdomain = "www"
       /\ dash[s].put.pc = "Conflict"
       /\ accounts[dash[s].account].subdomain = "alice"

\* ------------------------------------------- claims on the public requests
\* the browser holds the tokens of a logged-in account
HoldsTokens == localStorage["access_token"] # 0 /\ localStorage["refresh_token"] # 0

\* C19: every public request, the confirm POST included, is sent without an
\* access token and is taken for the guest id alone, whether or not the
\* browser holds stored tokens.
C19_ConfirmNeedsNoAuthentication ==
    /\ page.basePath # Null => page.auth = 0
    /\ page.posted => page.postAuth = 0 /\ page.hasConfirmed

\* a browser that holds tokens has sent the confirm POST, and it was taken
C19_Witness == HoldsTokens /\ page.posted /\ page.postAuth = 0 /\ page.hasConfirmed

\* ------------------------------------------------ claims on the Intro quota
\* the Intros an account owns, and the quota kept
Owns(a) == Cardinality(owned(intros, a))
QuotaKept == \A a \in Accounts : Owns(a) <= accounts[a].max_invite

\* the dashboard of session s renders the create button
Offered(s) == ~dash[s].loading /\ dash[s].intros < dash[s].user.max_invite

C21_NoGuestQuota == ~addGuestDisabled(gpage.stats)

\* ------------------------------------- further claims on the API client
\* a step in which a refresh call returns 200 with a newly issued token
RefreshSucceeds ==
    /\ issued' = issued + 1 /\ logins' = logins
    /\ \E r \in Req : req[r].pc = "refreshing" /\ req'[r].pc # "refreshing"

C24_AtMostOneResend ==
    \A r \in Req :
       /\ req[r].resent <= 1
       /\ req[r].resent = 1 => req[r].pc \notin {"refreshing", "queued"}

\* a request is settled: its promise resolved or rejected
Settled(r) == req[r].pc \in {"ok", "rejected"}

\* a step in which a refresh call returns, with 200 or with an error
RefreshReturns == \E r \in Req : req[r].pc = "refreshing" /\ req'[r].pc # "refreshing"

LoggedOut == href = "/login" /\ ~navigating

\* C26: after a logout the storage holds neither an access token nor a refresh
\* token until the next successful login, also when the logout falls into a
\* refresh in flight or a queued retry.
C26_LogoutClearsTokens ==
    LoggedOut => /\ localStorage["access_token"] = 0
                 /\ localStorage["refresh_token"] = 0

\* what the page shows and what the backend holds, as lists
shownOrder == sorted(sessions, present(sessions))
persistedOrder == sorted(albumImages, present(albumImages))

\* every request of the page has completed, re-fetches included
AlbumQuiet ==
    /\ \A n \in Puts : reordering[n].pc = "none"
    /\ fetching = << >>
    /\ deleting.pc = "none"
    /\ ~uploading.active

\* C27: reorder convergence: once every reorder request has completed (a
\* failed one followed by its re-fetch) and no drag follows, the order the
\* page shows is the order the backend holds, however the concurrent PUTs
\* were processed and answered.
C27_ReorderConvergence == AlbumQuiet => shownOrder = persistedOrder

\* the middleware asks the backend for the subdomain of the request
LookupMade == mwGetSubdomain(host, port) # Null /\ ~IsStaticPath(pathname)

\* C28: the middleware rewrites a request from a subdomain host to /not-found
\* only when the backend answered the lookup with a non-OK status; when the
\* lookup throws or times out the request passes with x-subdomain set.
C28_RewriteOnlyOnNonOk ==
    mw.done =>
      /\ mw.result = "rewrite" =>
           /\ LookupMade /\ ~lookupThrows
           /\ resolveBySubdomain(mwGetSubdomain(host, port)) = 0
      /\ (LookupMade /\ lookupThrows) =>
           /\ mw.result = "next"
           /\ mw.header = mwGetSubdomain(host, port)

\* the lookup for a subdomain nobody holds throws, and the request passes
C28_Witness ==
    /\ mw.done /\ lookupThrows /\ LookupMade
    /\ resolveBySubdomain(mwGetSubdomain(host, port)) = 0
    /\ mw.result = "next" /\ mw.header = "ghost"

\* the server reported the guest of tab t as confirmed and the handler that
\* reads the report is about to run
ReportedConfirmed(t) ==
    \/ tab[t].pc = "fetched" /\ tab[t].guestResult = "confirmed"
    \/ tab[t].pc = "answered" /\ tab[t].result # Null

\* C29: in the invite section hasConfirmed becomes true only on a report of
\* the server (the first fetch returned confirm true, or a confirm POST
\* returned OK); a confirm that fails or throws leaves hasConfirmed false and
\* isConfirming false; no confirm POST is sent while hasConfirmed is true or
\* another confirm is in flight.
C29_HasConfirmedFollowsServer ==
    [][\A t \in Tabs :
         /\ (~tab[t].hasConfirmed /\ tab'[t].hasConfirmed) => ReportedConfirmed(t)
         /\ (tab[t].pc = "answered" /\ tab[t].result = Null /\ tab'[t].pc # "answered") =>
                ~tab'[t].hasConfirmed /\ ~tab'[t].isConfirming
         /\ (tab[t].pc # "confirming" /\ tab'[t].pc = "confirming") =>
                ~tab[t].hasConfirmed /\ ~tab[t].isConfirming
         /\ tab'[t].pc \in {"confirming", "answered"} =>
                tab'[t].isConfirming /\ ~tab'[t].hasConfirmed]_vars

\* two confirms of one guest were served: one tab holds hasConfirmed, the
\* other came to rest without it although the guest is confirmed
C29_Witness ==
    \E t1, t2 \in Tabs :
       /\ tab[t1].hasConfirmed /\ tab[t1].pc = "ready"
       /\ tab[t2].pc = "ready" /\ ~tab[t2].hasConfirmed /\ ~tab[t2].isConfirming
       /\ serverLog.kind = "confirm" /\ serverLog.again
       /\ guestConfirm[tab[t2].guestId]

\* the row the page marks as Demo and offers no delete for
DemoRow == gpage.guests[1]

\* every GET of the list has been answered and the page shows rows of page 1
ListAtRest == fetches = {} /\ ~gpage.loading /\ gpage.currentPage = 1 /\ gpage.guests # << >>

\* C23: seed guest: the guest the page marks as Demo and offers no delete for
\* (index 0 of page 1) is the first-created remaining guest of the Intro,
\* after any sequence of creations, deletions and page changes.
C23_DemoRowIsSeed == ListAtRest => roster.ids # << >> /\ DemoRow = roster.ids[1]

\* C30: guest edit round-trip: for every stored guest, with any name and any
\* relationship label of the list, opening the edit modal and saving without
\* changing a field sends the name, relationship and confirm value the guest
\* already has.
C30_EditRoundTrip == modal.saved => modal.data = modal.guest

====
